---- MODULE Spec2Model ----
(***************************************************************************)
(* A model of the awt contact-centre simulator: the Simulation driver      *)
(* (awt-simulation/src/lib.rs), its request queue and server queue, the    *)
(* Request state machine, the routing policy and the metrics aggregator    *)
(* (awt-metrics).                                                          *)
(*                                                                         *)
(* Durations are natural numbers.  Option<Duration> is a number or None.   *)
(* A Request is identified by its position in request_queue.inner (the     *)
(* ids handed out by the ID_COUNTER are distinct, one per Request::new).   *)
(* A server entity is identified by its position in server_queue.inner;    *)
(* its id is the pub field `id`, which the caller of add_server chooses.   *)
(* Attributes are carried by the code but read by nothing modelled here.   *)
(* A request also carries `log`, the sequence of values its status field   *)
(* has held: a call may change the status more than once (tick releases a  *)
(* request and routes it), and the log keeps every change visible.         *)
(***************************************************************************)
EXTENDS Integers, Sequences, FiniteSets, Bags, TLC

\* ---------------------------------------------------------------- bounds
End == 3             \* the `end` argument of Simulation::new
MaxTickSize == 2     \* tick_size is drawn from 0..MaxTickSize
MaxClients == 2      \* add_client succeeds at most this often
MaxServers == 2      \* add_server succeeds at most this often
MaxEnables == 2      \* enable succeeds at most this often
MaxRequests == 2     \* enable generates requests again while inner holds at most this many
MaxRouteLen == 3     \* length of the inputs of route_requests in SpecRoute
MaxMetrics == 1      \* add_metric succeeds at most this often
MaxOutcomes == 2     \* SpecMetrics: the requests an aggregator is handed
MaxCalculates == 2   \* SpecMetrics: Aggregator::calculate is called at most this often
MaxTargets == 2      \* SpecTargets: the aggregator holds at most this many metrics
MaxLog == 4          \* SpecRequest: a request is called while its status changed fewer times

\* the clients handed to add_client
Clients == {[handle_time |-> 2, abandon_time |-> 1],
            [handle_time |-> 0, abandon_time |-> 0]}
\* the metrics handed to add_metric
Metrics == {"AnswerCount"}

None == -1

VARIABLES
    id_counter,      \* the static ID_COUNTER
    threads,         \* SpecIds: the simulation each thread of the pool is building
    end,             \* Simulation.end
    tick,            \* Simulation.tick
    tick_size,       \* Simulation.tick_size
    running,         \* Simulation.running
    clients,         \* Simulation.clients
    request_queue,   \* Simulation.request_queue: [inner, enqueued, waiting]
    server_queue,    \* Simulation.server_queue: [inner, enqueued, waiting, ordered]
    statistics,      \* Simulation.statistics: the metrics pushed
    enables,         \* number of enable() calls that returned Ok
    fatal,           \* a panic has unwound out of a call
    op,              \* the last call and what it returned
    route_in,        \* SpecRoute: the arguments of route_requests
    route_out,       \* SpecRoute: its result
    aggregator,      \* Aggregator.metrics: metric type -> Metric
    folded           \* the request slices handed to Aggregator::calculate so far

vars == <<id_counter, threads, end, tick, tick_size, running, clients, request_queue, server_queue,
          statistics, enables, fatal, op, route_in, route_out, aggregator, folded>>

sim_vars == <<end, tick, tick_size, running, clients, request_queue, server_queue,
              statistics, enables, fatal, op>>

\* ------------------------------------------------------------ helpers
Min(S) == CHOOSE x \in S : \A y \in S : x <= y

\* All sequences that list the finite set S once each (an iteration order
\* of a HashMap's values).
Orders(S) ==
    {s \in [1..Cardinality(S) -> S] : \A i, j \in 1..Cardinality(S) : s[i] = s[j] => i = j}

\* ------------------------------------------------------------ Request
Request_new(id, start, abandon_ticks, handle_ticks, source) ==
    [id |-> id, start |-> start, abandon_ticks |-> abandon_ticks,
     handle_ticks |-> handle_ticks, established |-> None, end |-> None,
     status |-> "Pending", source |-> source, log |-> <<"Pending">>]

\* self.status = status
SetStatus(r, status) ==
    [r EXCEPT !.status = status,
              !.log = IF r.status = status THEN @ ELSE Append(@, status)]

\* assert!(tick >= self.start)
Request_enqueue_panics(r, now) == now < r.start

Request_enqueue(r, now) == SetStatus(r, "Enqueued")

Request_tick_wait_panics(r, now) == r.status = "Enqueued" /\ now < r.start

\* tick_wait without the status test
Request_tick_wait_any_status(r, now) ==
    IF r.abandon_ticks <= now
    THEN [request |-> [SetStatus(r, "Abandoned") EXCEPT !.end = now], ret |-> FALSE]
    ELSE [request |-> r, ret |-> TRUE]

\* tick_wait that lets the request wait through the tick of its deadline
Request_tick_wait_late(r, now) ==
    IF r.status # "Enqueued" THEN [request |-> r, ret |-> FALSE]
    ELSE IF r.abandon_ticks < now
         THEN [request |-> [SetStatus(r, "Abandoned") EXCEPT !.end = now], ret |-> FALSE]
         ELSE [request |-> r, ret |-> TRUE]

\* tick_wait that gives up one tick before the deadline
Request_tick_wait_early(r, now) ==
    IF r.status # "Enqueued" THEN [request |-> r, ret |-> FALSE]
    ELSE IF r.abandon_ticks <= now + 1
         THEN [request |-> [SetStatus(r, "Abandoned") EXCEPT !.end = now], ret |-> FALSE]
         ELSE [request |-> r, ret |-> TRUE]

Request_tick_wait(r, now) ==
    IF r.status # "Enqueued" THEN [request |-> r, ret |-> FALSE]
    ELSE IF r.abandon_ticks <= now
         THEN [request |-> [SetStatus(r, "Abandoned") EXCEPT !.end = now], ret |-> FALSE]
         ELSE [request |-> r, ret |-> TRUE]

Request_handle_panics(r, now) == r.status # "Enqueued" \/ now < r.start

\* handle that forgets the handle duration
Request_handle_no_duration(r, now) ==
    [request |-> [SetStatus(r, "Answered") EXCEPT !.established = now, !.end = now],
     ret |-> now]

Request_handle(r, now) ==
    [request |-> [SetStatus(r, "Answered") EXCEPT !.established = now,
                                                  !.end = now + r.handle_ticks],
     ret |-> now + r.handle_ticks]

\* ------------------------------------------------------ request queue
RequestQueue_default == [inner |-> <<>>, enqueued |-> EmptyBag, waiting |-> {}]

RequestQueue_push(q, req) == [q EXCEPT !.inner = Append(@, req)]

\* every request of inner is pushed onto the heap, whatever the heap holds
RequestQueue_init(q) ==
    [q EXCEPT !.enqueued = @ (+) SetToBag(DOMAIN q.inner)]

tick_queued_panics(q, now) ==
    \E i \in q.waiting : Request_tick_wait_panics(q.inner[i], now)

tick_queued(q, now) ==
    LET inner2 == [i \in DOMAIN q.inner |->
                     IF i \in q.waiting
                     THEN Request_tick_wait(q.inner[i], now).request
                     ELSE q.inner[i]]
    IN [q EXCEPT !.inner = inner2,
                 !.waiting = {i \in q.waiting : inner2[i].status = "Enqueued"}]

\* The heap is keyed by start, which never changes: peek is the least start,
\* so the loop pops every entry whose start is <= now.
ReleasedNow(q, now) == {i \in BagToSet(q.enqueued) : q.inner[i].start <= now}

tick_release_to_queue_panics(q, now) ==
    \E i \in ReleasedNow(q, now) : Request_enqueue_panics(q.inner[i], now)

\* release that peeks the pending heap without popping it
tick_release_to_queue_no_pop(q, now) ==
    LET rel == ReleasedNow(q, now)
    IN [inner |-> [i \in DOMAIN q.inner |->
                     IF i \in rel THEN Request_enqueue(q.inner[i], now) ELSE q.inner[i]],
        enqueued |-> q.enqueued,
        waiting |-> q.waiting \cup rel]

tick_release_to_queue(q, now) ==
    LET rel == ReleasedNow(q, now)
    IN [inner |-> [i \in DOMAIN q.inner |->
                     IF i \in rel THEN Request_enqueue(q.inner[i], now) ELSE q.inner[i]],
        enqueued |-> [i \in BagToSet(q.enqueued) \ rel |-> q.enqueued[i]],
        waiting |-> q.waiting \cup rel]

RequestQueue_tick_panics(q, now) ==
    \/ tick_queued_panics(q, now)
    \/ tick_release_to_queue_panics(tick_queued(q, now), now)

\* tick that releases the pending requests before the abandon sweep
RequestQueue_tick_release_first(q, now) == tick_queued(tick_release_to_queue(q, now), now)

RequestQueue_tick(q, now) == tick_release_to_queue(tick_queued(q, now), now)

RequestQueue_next_tick(q) ==
    IF q.enqueued = EmptyBag THEN None
    ELSE Min({q.inner[i].start : i \in BagToSet(q.enqueued)})

has_waiting(q) == q.waiting # {}

handle_request_panics(q, id, now) ==
    \/ id \notin q.waiting
    \/ Request_handle_panics(q.inner[id], now)

handle_request(q, id, now) ==
    LET h == Request_handle(q.inner[id], now)
    IN [queue |-> [q EXCEPT !.inner[id] = h.request], ret |-> h.ret]

\* ------------------------------------------------------- server queue
\* `ordered` records whether the busy heap still satisfies the heap order.
\* The heap holds shared handles and compares them by the `tick` they point
\* to; enqueue writes that tick.  Writing the tick of a handle that is already
\* in the heap (only possible after init has put a busy server back into
\* waiting) may leave the heap out of order, and peek then returns an entry
\* that need not be the least one.
ServerQueue_default ==
    [inner |-> <<>>, enqueued |-> EmptyBag, waiting |-> <<>>, ordered |-> TRUE]

QueueableServer_new(server) == [id |-> server.id, tick |-> 0]

ServerQueue_push(q, server) == [q EXCEPT !.inner = Append(@, server)]

\* waiting.insert(id, server) for every server of inner, in order: for an id
\* that occurs twice the later server replaces the earlier one
ServerQueue_init(q) ==
    LET ids == {q.inner[i].id : i \in DOMAIN q.inner}
        last(id) == CHOOSE i \in DOMAIN q.inner :
                        /\ q.inner[i].id = id
                        /\ \A j \in DOMAIN q.inner : q.inner[j].id = id => j <= i
    IN [q EXCEPT !.waiting = [id \in ids |-> last(id)] @@ q.waiting]

DueBag(q, now) ==
    LET due == {i \in BagToSet(q.enqueued) : q.inner[i].tick <= now}
    IN [i \in due |-> q.enqueued[i]]

\* The bags of entries the loop `while peek.tick <= now { pop }` can pop.
\* On an ordered heap: every entry that is due.  On a heap out of order the
\* loop may stop early at a root that is not due.
PoppedChoices(q, now) ==
    IF q.ordered THEN {DueBag(q, now)}
    ELSE {P \in SubBag(DueBag(q, now)) :
            \/ P = DueBag(q, now)
            \/ \E i \in BagToSet(q.enqueued (-) P) : q.inner[i].tick > now}

ServerQueue_popped(q, P) ==
    LET rest == q.enqueued (-) P
        ids == {q.inner[i].id : i \in BagToSet(P)}
        ent(id) == CHOOSE i \in BagToSet(P) : q.inner[i].id = id
    IN [q EXCEPT !.enqueued = rest,
                 !.waiting = [id \in ids |-> ent(id)] @@ q.waiting,
                 !.ordered = q.ordered \/ rest = EmptyBag]

\* tick that releases every busy server, due or not
ServerQueue_tick_release_all(q, now) == {ServerQueue_popped(q, q.enqueued)}

\* the set of queues ServerQueue::tick can leave
ServerQueue_tick(q, now) == {ServerQueue_popped(q, P) : P \in PoppedChoices(q, now)}

\* the set of values ServerQueue::next_tick can return
ServerQueue_next_tick(q) ==
    IF q.enqueued = EmptyBag THEN {None}
    ELSE IF q.ordered THEN {Min({q.inner[i].tick : i \in BagToSet(q.enqueued)})}
    ELSE {q.inner[i].tick : i \in BagToSet(q.enqueued)}

ServerData_from(server) == [id |-> server.id]

RequestData_from(request) == [id |-> request.id, start |-> request.start]

\* the snapshots of the waiting map, in one of its iteration orders
ServerQueue_routing_data(q) ==
    {[k \in DOMAIN o |-> ServerData_from(q.inner[q.waiting[o[k]]])] :
        o \in Orders(DOMAIN q.waiting)}

RequestQueue_routing_data(q) ==
    {[k \in DOMAIN o |-> RequestData_from(q.inner[o[k]])] : o \in Orders(q.waiting)}

ServerQueue_enqueue_panics(q, id) == id \notin DOMAIN q.waiting

\* enqueue that reads the free map without removing the server from it
ServerQueue_enqueue_no_remove(q, id, until) ==
    LET e == q.waiting[id]
        inHeap == e \in BagToSet(q.enqueued)
    IN [inner |-> [q.inner EXCEPT ![e].tick = until],
        enqueued |-> q.enqueued (+) SetToBag({e}),
        waiting |-> q.waiting,
        ordered |-> /\ q.ordered
                    /\ \/ ~inHeap
                       \/ until = q.inner[e].tick
                       \/ BagToSet(q.enqueued) = {e}]

ServerQueue_enqueue(q, id, until) ==
    LET e == q.waiting[id]
        inHeap == e \in BagToSet(q.enqueued)
    IN [inner |-> [q.inner EXCEPT ![e].tick = until],
        enqueued |-> q.enqueued (+) SetToBag({e}),
        waiting |-> [k \in DOMAIN q.waiting \ {id} |-> q.waiting[k]],
        ordered |-> /\ q.ordered
                    /\ \/ ~inHeap
                       \/ until = q.inner[e].tick
                       \/ BagToSet(q.enqueued) = {e}]

\* ------------------------------------------------------------ routing
\* a policy that routes the first request only
route_requests_first_only(requests, servers) ==
    IF requests = <<>> \/ servers = <<>> THEN <<>>
    ELSE <<<<Head(requests).id, servers[Len(servers)].id>>>>

\* a policy that reads the last server without popping it
RECURSIVE route_requests_no_pop(_, _)
route_requests_no_pop(requests, servers) ==
    IF requests = <<>> THEN <<>>
    ELSE IF servers = <<>> THEN <<>>
    ELSE <<<<Head(requests).id, servers[Len(servers)].id>>>>
         \o route_requests_no_pop(Tail(requests), servers)

RECURSIVE route_requests(_, _)
route_requests(requests, servers) ==
    IF requests = <<>> THEN <<>>
    ELSE IF servers = <<>> THEN route_requests(Tail(requests), servers)
    ELSE <<<<Head(requests).id, servers[Len(servers)].id>>>>
         \o route_requests(Tail(requests), SubSeq(servers, 1, Len(servers) - 1))

\* ------------------------------------------------------------ metrics
\* Durations and counts are natural numbers; a Percent's f64 sum and count
\* only ever hold whole numbers.
Request_wait_time(r) ==
    IF r.established # None THEN r.established - r.start
    ELSE IF r.end # None THEN r.end - r.start
    ELSE None

Request_handle_time(r) ==
    IF r.status = "Answered"
    THEN IF r.end # None THEN r.end - r.established ELSE None
    ELSE None

Value_default_mean_duration == [kind |-> "MeanDuration", sum |-> 0, count |-> 0]

Value_default_count == [kind |-> "Count", sum |-> 0, count |-> 0]

Value_default_percent == [kind |-> "Percent", sum |-> 0, count |-> 0]

Target_mean_duration(duration) == [kind |-> "MeanDuration", sum |-> duration, count |-> 1]

Target_count(count) == [kind |-> "Count", sum |-> 0, count |-> count]

Target_percent(percent) == [kind |-> "Percent", sum |-> percent, count |-> 1]

MeanDuration_report(v, duration) ==
    [v EXCEPT !.count = @ + 1, !.sum = @ + duration]

Count_report(v) == [v EXCEPT !.count = @ + 1]

Percent_report(v, in_range) ==
    [v EXCEPT !.sum = IF in_range THEN @ + 1 ELSE @, !.count = @ + 1]

MeanDurationTypes == {"AverageWorkTime", "AverageSpeedAnswer",
                      "AverageTimeInQueue", "AverageTimeToAbandon"}

\* Result<Metric, MetricError>
Metric_Ok(metric_type, value, target, target_condition) ==
    [ok |-> TRUE,
     metric |-> [metric_type |-> metric_type, value |-> value, target |-> target,
                 target_condition |-> target_condition]]

Metric_Err == [ok |-> FALSE, metric |-> None]

\* with_target that takes whatever target it is given
Metric_with_target_any_target(metric_type, target) ==
    LET name == metric_type.name
    IN CASE name \in MeanDurationTypes ->
                Metric_Ok(metric_type, Value_default_mean_duration, target, "LessOrEqual")
         [] name \in {"UtilisationTime", "ServiceLevel"} ->
                Metric_Ok(metric_type, Value_default_percent, target, "GreaterOrEqual")
         [] name = "AbandonRate" ->
                Metric_Ok(metric_type, Value_default_percent, target, "LessOrEqual")
         [] name = "AnswerCount" ->
                Metric_Ok(metric_type, Value_default_count, target, "Equal")
         [] OTHER -> Metric_Err

\* match (metric_type, target): the first arm that matches decides
Metric_with_target(metric_type, target) ==
    LET name == metric_type.name
    IN CASE name \in MeanDurationTypes /\ target.kind = "MeanDuration" ->
                Metric_Ok(metric_type, Value_default_mean_duration, target, "LessOrEqual")
         [] name \in {"UtilisationTime", "ServiceLevel"} /\ target.kind = "Percent" ->
                Metric_Ok(metric_type, Value_default_percent, target, "GreaterOrEqual")
         [] name = "AbandonRate" /\ target.kind = "Percent" ->
                Metric_Ok(metric_type, Value_default_percent, target, "LessOrEqual")
         [] name = "AnswerCount" /\ target.kind = "Count" ->
                Metric_Ok(metric_type, Value_default_count, target, "Equal")
         [] OTHER -> Metric_Err

\* PartialEq for Value
Value_eq(a, b) ==
    IF a.kind # b.kind THEN FALSE
    ELSE CASE a.kind = "MeanDuration" -> (a.sum \div a.count) = (b.sum \div b.count)
           [] a.kind = "Count" -> a.count = b.count
           [] a.kind = "Percent" -> a.sum = b.sum /\ a.count = b.count

Metric_on_target(m) ==
    IF m.target_condition = "Equal" THEN Value_eq(m.value, m.target)
    ELSE TRUE

\* MetricType::UtilisationTime => todo!()
report_panics(m, r) == m.metric_type.name = "UtilisationTime"

\* report that counts a wait equal to the window as a miss
report_strict_window(m, r) ==
    LET name == m.metric_type.name
        wait == Request_wait_time(r)
        work == Request_handle_time(r)
    IN CASE name = "ServiceLevel" /\ r.status = "Answered" ->
                IF wait # None
                THEN [m EXCEPT !.value = Percent_report(@, wait < m.metric_type.ticks)]
                ELSE m
         [] name = "AverageWorkTime" /\ r.status = "Answered" ->
                IF work # None THEN [m EXCEPT !.value = MeanDuration_report(@, work)] ELSE m
         [] name = "AverageSpeedAnswer" /\ r.status = "Answered" ->
                IF wait # None THEN [m EXCEPT !.value = MeanDuration_report(@, wait)] ELSE m
         [] name = "AverageTimeToAbandon" /\ r.status = "Abandoned" ->
                IF wait # None THEN [m EXCEPT !.value = MeanDuration_report(@, wait)] ELSE m
         [] name = "AbandonRate" ->
                [m EXCEPT !.value = Percent_report(@, r.status = "Abandoned")]
         [] name = "AverageTimeInQueue" ->
                IF wait # None THEN [m EXCEPT !.value = MeanDuration_report(@, wait)] ELSE m
         [] name = "AnswerCount" /\ r.status = "Answered" ->
                [m EXCEPT !.value = Count_report(@)]
         [] OTHER -> m

\* report that folds the wait of every status into AverageSpeedAnswer
report_no_filter(m, r) ==
    LET name == m.metric_type.name
        wait == Request_wait_time(r)
        work == Request_handle_time(r)
    IN CASE name = "ServiceLevel" /\ r.status = "Answered" ->
                IF wait # None
                THEN [m EXCEPT !.value = Percent_report(@, wait <= m.metric_type.ticks)]
                ELSE m
         [] name = "AverageWorkTime" /\ r.status = "Answered" ->
                IF work # None THEN [m EXCEPT !.value = MeanDuration_report(@, work)] ELSE m
         [] name = "AverageSpeedAnswer" ->
                IF wait # None THEN [m EXCEPT !.value = MeanDuration_report(@, wait)] ELSE m
         [] name = "AverageTimeToAbandon" /\ r.status = "Abandoned" ->
                IF wait # None THEN [m EXCEPT !.value = MeanDuration_report(@, wait)] ELSE m
         [] name = "AbandonRate" ->
                [m EXCEPT !.value = Percent_report(@, r.status = "Abandoned")]
         [] name = "AverageTimeInQueue" ->
                IF wait # None THEN [m EXCEPT !.value = MeanDuration_report(@, wait)] ELSE m
         [] name = "AnswerCount" /\ r.status = "Answered" ->
                [m EXCEPT !.value = Count_report(@)]
         [] OTHER -> m

\* the first arm that matches the metric type and the status decides
report(m, r) ==
    LET name == m.metric_type.name
        wait == Request_wait_time(r)
        work == Request_handle_time(r)
    IN CASE name = "ServiceLevel" /\ r.status = "Answered" ->
                IF wait # None
                THEN [m EXCEPT !.value = Percent_report(@, wait <= m.metric_type.ticks)]
                ELSE m
         [] name = "AverageWorkTime" /\ r.status = "Answered" ->
                IF work # None THEN [m EXCEPT !.value = MeanDuration_report(@, work)] ELSE m
         [] name = "AverageSpeedAnswer" /\ r.status = "Answered" ->
                IF wait # None THEN [m EXCEPT !.value = MeanDuration_report(@, wait)] ELSE m
         [] name = "AverageTimeToAbandon" /\ r.status = "Abandoned" ->
                IF wait # None THEN [m EXCEPT !.value = MeanDuration_report(@, wait)] ELSE m
         [] name = "AbandonRate" ->
                [m EXCEPT !.value = Percent_report(@, r.status = "Abandoned")]
         [] name = "AverageTimeInQueue" ->
                IF wait # None THEN [m EXCEPT !.value = MeanDuration_report(@, wait)] ELSE m
         [] name = "AnswerCount" /\ r.status = "Answered" ->
                [m EXCEPT !.value = Count_report(@)]
         [] OTHER -> m

Aggregator_default == <<>>

\* metrics.iter().map(|m| (m.metric(), m.clone())).collect()
RECURSIVE Aggregator_with_metrics(_)
Aggregator_with_metrics(metrics) ==
    IF metrics = <<>> THEN Aggregator_default
    ELSE LET m == metrics[Len(metrics)]
         IN (m.metric_type.name :> m)
            @@ Aggregator_with_metrics(SubSeq(metrics, 1, Len(metrics) - 1))

\* self.metrics.insert(m.metric(), m)
Aggregator_push(metrics, m) ==
    [k \in DOMAIN metrics \cup {m.metric_type.name} |->
        IF k = m.metric_type.name THEN m ELSE metrics[k]]

\* calculate reaches a report that aborts
Aggregator_calculate_panics(metrics, requests) ==
    \E i \in DOMAIN requests : \E k \in DOMAIN metrics : report_panics(metrics[k], requests[i])

\* calculate that starts every accumulator afresh
RECURSIVE Aggregator_calculate_reset(_, _)
Aggregator_calculate_reset(metrics, requests) ==
    IF requests = <<>> THEN metrics
    ELSE LET zero == [k \in DOMAIN metrics |->
                        [metrics[k] EXCEPT !.value.sum = 0, !.value.count = 0]]
             rest == IF Len(requests) = 1 THEN zero
                     ELSE Aggregator_calculate_reset(metrics,
                              SubSeq(requests, 1, Len(requests) - 1))
         IN [k \in DOMAIN rest |-> report(rest[k], requests[Len(requests)])]

\* for request in requests { for metric in metrics.values_mut() { report } }
RECURSIVE Aggregator_calculate(_, _)
Aggregator_calculate(metrics, requests) ==
    IF requests = <<>> THEN metrics
    ELSE LET rest == Aggregator_calculate(metrics, SubSeq(requests, 1, Len(requests) - 1))
         IN [k \in DOMAIN rest |-> report(rest[k], requests[Len(requests)])]

\* --------------------------------------------------------- Simulation
Panicked == [request_queue |-> request_queue, server_queue |-> server_queue,
             panic |-> TRUE]

\* for (request_id, server_id) in routes { handle_request; enqueue }
RECURSIVE apply_routes(_, _, _, _)
apply_routes(rq, sq, routes, now) ==
    IF routes = <<>>
    THEN [request_queue |-> rq, server_queue |-> sq, panic |-> FALSE]
    ELSE LET request_id == routes[1][1]
             server_id == routes[1][2]
         IN IF handle_request_panics(rq, request_id, now) THEN Panicked
            ELSE LET h == handle_request(rq, request_id, now)
                     release_tick == h.ret
                 IN IF ServerQueue_enqueue_panics(sq, server_id) THEN Panicked
                    ELSE apply_routes(h.queue,
                                      ServerQueue_enqueue(sq, server_id, release_tick),
                                      Tail(routes), now)

do_routing(rq, sq, now, request_data, server_data) ==
    IF request_data = <<>> \/ server_data = <<>>
    THEN [request_queue |-> rq, server_queue |-> sq, panic |-> FALSE]
    ELSE apply_routes(rq, sq, route_requests(request_data, server_data), now)

\* increment_tick without the clamp to end
increment_tick_no_clamp(now, waiting, request_buffer_head, server_buffer_head) ==
    LET t == IF waiting THEN now + tick_size
             ELSE IF request_buffer_head # None /\ server_buffer_head # None
                     /\ request_buffer_head <= server_buffer_head
                  THEN request_buffer_head
             ELSE IF server_buffer_head # None THEN server_buffer_head
             ELSE IF request_buffer_head # None THEN request_buffer_head
             ELSE end
    IN IF t >= end THEN [tick |-> t, running |-> FALSE]
       ELSE [tick |-> t, running |-> running]

\* increment_tick that stays at the current tick while requests wait
increment_tick_stall(now, waiting, request_buffer_head, server_buffer_head) ==
    LET t == IF waiting THEN now
             ELSE IF request_buffer_head # None /\ server_buffer_head # None
                     /\ request_buffer_head <= server_buffer_head
                  THEN request_buffer_head
             ELSE IF server_buffer_head # None THEN server_buffer_head
             ELSE IF request_buffer_head # None THEN request_buffer_head
             ELSE end
    IN IF t >= end THEN [tick |-> end, running |-> FALSE]
       ELSE [tick |-> t, running |-> running]

\* increment_tick that always jumps to the next event
increment_tick_always_jump(now, waiting, request_buffer_head, server_buffer_head) ==
    LET t == IF request_buffer_head # None /\ server_buffer_head # None
                     /\ request_buffer_head <= server_buffer_head
                  THEN request_buffer_head
             ELSE IF server_buffer_head # None THEN server_buffer_head
             ELSE IF request_buffer_head # None THEN request_buffer_head
             ELSE end
    IN IF t >= end THEN [tick |-> end, running |-> FALSE]
       ELSE [tick |-> t, running |-> running]

\* increment_tick that jumps to the next server release before looking at the
\* request buffer
increment_tick_server_head_first(now, waiting, request_buffer_head, server_buffer_head) ==
    LET t == IF waiting THEN now + tick_size
             ELSE IF server_buffer_head # None THEN server_buffer_head
             ELSE IF request_buffer_head # None THEN request_buffer_head
             ELSE end
    IN IF t >= end THEN [tick |-> end, running |-> FALSE]
       ELSE [tick |-> t, running |-> running]

\* increment_tick that ignores the request buffer when no server is busy
increment_tick_no_request_head(now, waiting, request_buffer_head, server_buffer_head) ==
    LET t == IF waiting THEN now + tick_size
             ELSE IF request_buffer_head # None /\ server_buffer_head # None
                     /\ request_buffer_head <= server_buffer_head
                  THEN request_buffer_head
             ELSE IF server_buffer_head # None THEN server_buffer_head
             ELSE end
    IN IF t >= end THEN [tick |-> end, running |-> FALSE]
       ELSE [tick |-> t, running |-> running]

increment_tick(now, waiting, request_buffer_head, server_buffer_head) ==
    LET t == IF waiting THEN now + tick_size
             ELSE IF request_buffer_head # None /\ server_buffer_head # None
                     /\ request_buffer_head <= server_buffer_head
                  THEN request_buffer_head
             ELSE IF server_buffer_head # None THEN server_buffer_head
             ELSE IF request_buffer_head # None THEN request_buffer_head
             ELSE end
    IN IF t >= end THEN [tick |-> end, running |-> FALSE]
       ELSE [tick |-> t, running |-> running]

\* One Request per client, appended to request_queue.inner; start is drawn by
\* rng.gen_range(self.start..=self.end) and given here as starts[k].
RECURSIVE generate_requests(_, _, _)
generate_requests(q, cs, starts) ==
    IF cs = <<>> THEN q
    ELSE LET c == Head(cs)
             start == Head(starts)
             abandon_ticks == start + c.abandon_time
             handle_ticks == c.handle_time
             req == Request_new(Len(q.inner) + 1, start, abandon_ticks, handle_ticks, c)
         IN generate_requests(RequestQueue_push(q, req), Tail(cs), Tail(starts))

Call(name, ret) == [name |-> name, ret |-> ret]

add_server ==
    /\ ~fatal
    /\ \E id \in 1..(Len(server_queue.inner) + 1) :
         IF running
         THEN /\ op' = Call("add_server", "Enabled")
              /\ UNCHANGED server_queue
         ELSE /\ Len(server_queue.inner) < MaxServers
              /\ server_queue' = ServerQueue_push(server_queue,
                                                  QueueableServer_new([id |-> id]))
              /\ op' = Call("add_server", "Ok")
    /\ UNCHANGED <<id_counter, threads, end, tick, tick_size, running, clients, request_queue,
                   statistics,
                   enables, fatal, route_in, route_out, aggregator, folded>>

\* add_client without the running check
add_client_unchecked ==
    /\ ~fatal
    /\ \E client \in Clients :
         /\ Len(clients) < MaxClients
         /\ clients' = Append(clients, client)
         /\ op' = Call("add_client", "Ok")
    /\ UNCHANGED <<id_counter, threads, end, tick, tick_size, running, request_queue,
                   server_queue, statistics,
                   enables, fatal, route_in, route_out, aggregator, folded>>

add_client ==
    /\ ~fatal
    /\ \E client \in Clients :
         IF running
         THEN /\ op' = Call("add_client", "Enabled")
              /\ UNCHANGED clients
         ELSE /\ Len(clients) < MaxClients
              /\ clients' = Append(clients, client)
              /\ op' = Call("add_client", "Ok")
    /\ UNCHANGED <<id_counter, threads, end, tick, tick_size, running, request_queue,
                   server_queue, statistics,
                   enables, fatal, route_in, route_out, aggregator, folded>>

add_metric ==
    /\ ~fatal
    /\ \E m \in Metrics :
         IF running
         THEN /\ op' = Call("add_metric", "Enabled")
              /\ UNCHANGED statistics
         ELSE /\ Len(statistics) < MaxMetrics
              /\ statistics' = Append(statistics, m)
              /\ op' = Call("add_metric", "Ok")
    /\ UNCHANGED <<id_counter, threads, end, tick, tick_size, running, clients, request_queue,
                   server_queue,
                   enables, fatal, route_in, route_out, aggregator, folded>>

enable ==
    /\ ~fatal
    /\ IF running
       THEN /\ op' = Call("enable", "Enabled")
            /\ UNCHANGED <<running, request_queue, server_queue, enables>>
       ELSE /\ enables < MaxEnables
            /\ \/ request_queue.inner = <<>>
               \/ Len(request_queue.inner) + Len(clients) <= MaxRequests
            /\ running' = TRUE
            /\ \E starts \in [1..Len(clients) -> 0..end] :
                 request_queue' =
                     RequestQueue_init(generate_requests(request_queue, clients, starts))
            /\ server_queue' = ServerQueue_init(server_queue)
            /\ enables' = enables + 1
            /\ op' = Call("enable", "Ok")
    /\ UNCHANGED <<id_counter, threads, end, tick, tick_size, clients, statistics, fatal,
                   route_in, route_out,
                   aggregator, folded>>

Simulation_tick_panics ==
    /\ fatal' = TRUE
    /\ op' = Call("tick", "panic")
    /\ UNCHANGED <<tick, running, request_queue, server_queue>>

\* Everything one tick() call on a running simulation can leave, one record
\* for each iteration order of the waiting and free maps (and each root an
\* out-of-order busy heap can show): the queues after the sweeps and the
\* routing, and the time advance.
tick_outcomes(rq, sq, now) ==
    IF RequestQueue_tick_panics(rq, now) THEN {Panicked}
    ELSE LET rq1 == RequestQueue_tick(rq, now)
             after(sq1, request_data, server_data) ==
                 LET routed == do_routing(rq1, sq1, now, request_data, server_data)
                 IN IF routed.panic THEN {Panicked}
                    ELSE {[request_queue |-> routed.request_queue,
                           server_queue |-> routed.server_queue,
                           panic |-> FALSE,
                           inc |-> increment_tick(now,
                                       has_waiting(routed.request_queue),
                                       RequestQueue_next_tick(routed.request_queue),
                                       server_buffer_head)] :
                             server_buffer_head \in ServerQueue_next_tick(routed.server_queue)}
         IN UNION {UNION {after(sq1, request_data, server_data) :
                             request_data \in RequestQueue_routing_data(rq1),
                             server_data \in ServerQueue_routing_data(sq1)} :
                      sq1 \in ServerQueue_tick(sq, now)}

Simulation_tick ==
    /\ ~fatal
    /\ IF ~running
       THEN /\ op' = Call("tick", "false")
            /\ UNCHANGED <<tick, running, request_queue, server_queue, fatal>>
       ELSE \E out \in tick_outcomes(request_queue, server_queue, tick) :
               IF out.panic THEN Simulation_tick_panics
               ELSE /\ tick' = out.inc.tick
                    /\ running' = out.inc.running
                    /\ request_queue' = out.request_queue
                    /\ server_queue' = out.server_queue
                    /\ op' = Call("tick", IF out.inc.running THEN "true" ELSE "false")
                    /\ UNCHANGED fatal
    /\ UNCHANGED <<id_counter, threads, end, tick_size, clients, statistics, enables,
                   route_in, route_out,
                   aggregator, folded>>

Init ==
    /\ id_counter = 0
    /\ threads = <<>>
    /\ end = End
    /\ tick = 0
    /\ tick_size \in 0..MaxTickSize
    /\ running = FALSE
    /\ clients = <<>>
    /\ request_queue = RequestQueue_default
    /\ server_queue = ServerQueue_default
    /\ statistics = <<>>
    /\ enables = 0
    /\ fatal = FALSE
    /\ op = Call("new", "Ok")
    /\ route_in = [requests |-> <<>>, servers |-> <<>>]
    /\ route_out = [called |-> FALSE, routes |-> <<>>]
    /\ aggregator = Aggregator_default
    /\ folded = <<>>

Next ==
    \/ add_server
    \/ add_client
    \/ add_metric
    \/ enable
    \/ Simulation_tick

Spec == Init /\ [][Next]_vars

\* ------------------------------------------- the routing policy alone
\* route_requests applied to arbitrary snapshot sequences.
SeqsUpTo(S, n) == UNION {[1..k -> S] : k \in 0..n}

InitRoute ==
    /\ id_counter = 0
    /\ threads = <<>>
    /\ end = End
    /\ tick = 0
    /\ tick_size = 1
    /\ running = FALSE
    /\ clients = <<>>
    /\ request_queue = RequestQueue_default
    /\ server_queue = ServerQueue_default
    /\ statistics = <<>>
    /\ enables = 0
    /\ fatal = FALSE
    /\ op = Call("new", "Ok")
    /\ \E rs \in SeqsUpTo(1..MaxRouteLen, MaxRouteLen),
          ss \in SeqsUpTo(1..MaxRouteLen, MaxRouteLen) :
         route_in = [requests |-> [k \in DOMAIN rs |-> [id |-> rs[k], start |-> 0]],
                     servers |-> [k \in DOMAIN ss |-> [id |-> ss[k]]]]
    /\ route_out = [called |-> FALSE, routes |-> <<>>]
    /\ aggregator = Aggregator_default
    /\ folded = <<>>

route ==
    /\ ~route_out.called
    /\ route_out' = [called |-> TRUE,
                     routes |-> route_requests(route_in.requests, route_in.servers)]
    /\ UNCHANGED <<id_counter, threads, route_in, sim_vars, aggregator, folded>>

SpecRoute == InitRoute /\ [][route]_vars

\* ------------------------------------------------ the aggregator alone
\* Aggregator::calculate applied to slices of the requests of a simulation.
\* The requests are built by the Request operations themselves.
OutcomeClients == [long |-> [handle_time |-> 2, abandon_time |-> 3],
                   short |-> [handle_time |-> 1, abandon_time |-> 0]]

OutcomeRequest(id, c, start) ==
    Request_new(id, start, start + c.abandon_time, c.handle_time, c)

OutcomeRequests(id) ==
    LET long == OutcomeClients.long
        short == OutcomeClients.short
    IN {OutcomeRequest(id, long, 1),
        Request_enqueue(OutcomeRequest(id, long, 0), 0),
        Request_handle(Request_enqueue(OutcomeRequest(id, long, 0), 0), 0).request,
        Request_handle(Request_enqueue(OutcomeRequest(id, short, 1), 2), 2).request,
        Request_handle(Request_enqueue(OutcomeRequest(id, long, 0), 0), 2).request,
        Request_tick_wait(Request_enqueue(OutcomeRequest(id, short, 1), 1), 1).request,
        Request_tick_wait(Request_enqueue(OutcomeRequest(id, long, 0), 0), 3).request}

\* one metric of every type that can be reported, with the target its kind takes
AllMetrics ==
    <<Metric_with_target([name |-> "ServiceLevel", ticks |-> 1], Target_percent(1)).metric,
      Metric_with_target([name |-> "AverageWorkTime", ticks |-> None], Target_mean_duration(1)).metric,
      Metric_with_target([name |-> "AverageSpeedAnswer", ticks |-> None], Target_mean_duration(1)).metric,
      Metric_with_target([name |-> "AverageTimeToAbandon", ticks |-> None], Target_mean_duration(1)).metric,
      Metric_with_target([name |-> "AbandonRate", ticks |-> None], Target_percent(0)).metric,
      Metric_with_target([name |-> "AverageTimeInQueue", ticks |-> None], Target_mean_duration(1)).metric,
      Metric_with_target([name |-> "AnswerCount", ticks |-> None], Target_count(1)).metric>>

\* the elements of a set of numbers in increasing order
Ascending(S) == CHOOSE s \in Orders(S) : \A i, j \in DOMAIN s : i < j => s[i] < s[j]

\* the slices of the requests: some of them, in the order of the vector
Slices(requests) == {Ascending(S) : S \in SUBSET DOMAIN requests}

InitMetrics ==
    /\ id_counter = 0
    /\ threads = <<>>
    /\ end = End
    /\ tick = End
    /\ tick_size = 1
    /\ running = FALSE
    /\ clients = <<>>
    /\ \E n \in 0..MaxOutcomes : \E rs \in [1..n -> UNION {OutcomeRequests(i) : i \in 1..n}] :
         /\ \A i \in 1..n : rs[i] \in OutcomeRequests(i)
         /\ request_queue = [RequestQueue_default EXCEPT !.inner = rs]
    /\ server_queue = ServerQueue_default
    /\ statistics = <<>>
    /\ enables = 1
    /\ fatal = FALSE
    /\ op = Call("with_metrics", "Ok")
    /\ route_in = [requests |-> <<>>, servers |-> <<>>]
    /\ route_out = [called |-> FALSE, routes |-> <<>>]
    /\ aggregator = Aggregator_with_metrics(AllMetrics)
    /\ folded = <<>>

calculate ==
    /\ ~fatal
    /\ Len(folded) < MaxCalculates
    /\ \E slice \in Slices(request_queue.inner) :
         LET requests == [k \in DOMAIN slice |-> request_queue.inner[slice[k]]]
         IN IF Aggregator_calculate_panics(aggregator, requests)
            THEN /\ fatal' = TRUE
                 /\ op' = Call("calculate", "panic")
                 /\ UNCHANGED <<aggregator, folded>>
            ELSE /\ aggregator' = Aggregator_calculate(aggregator, requests)
                 /\ folded' = Append(folded, slice)
                 /\ op' = Call("calculate", "Ok")
                 /\ UNCHANGED fatal
    /\ UNCHANGED <<id_counter, threads, end, tick, tick_size, running, clients, request_queue,
                   server_queue,
                   statistics, enables, route_in, route_out>>

SpecMetrics == InitMetrics /\ [][calculate]_vars

\* ------------------------------------------- building the aggregator
\* Metrics are built through the library (Metric::with_target) or from the
\* configuration file (TryFrom<&Metric> for SimMetric), pushed into an
\* aggregator, and the aggregator is then handed requests.
MetricTypes ==
    {[name |-> n, ticks |-> None] : n \in MeanDurationTypes \cup
                                        {"AbandonRate", "UtilisationTime", "AnswerCount"}}
    \cup {[name |-> "ServiceLevel", ticks |-> 1]}

Targets == {Target_mean_duration(1), Target_percent(1), Target_count(1)}

\* the `target` key of a configured metric: absent, or a toml value.  Whether
\* value.try_into() converts a value is the toml crate's decision: `converts`
\* is drawn with the value.
ConfigTargets ==
    {[kind |-> "None", v |-> 0, converts |-> FALSE]}
    \cup {[kind |-> "Float", v |-> v, converts |-> c] : v \in {1, 2}, c \in BOOLEAN}
    \cup {[kind |-> "Integer", v |-> 1, converts |-> c] : c \in BOOLEAN}

ConfigMetrics ==
    {[metric |-> t.name, sla |-> sla, target |-> target] :
        t \in MetricTypes, sla \in {None, 1}, target \in ConfigTargets}

\* a configured metric with its target, when it has one that converts, handed
\* to with_target
try_from_target(metric, metric_type, target) ==
    IF metric.target.kind = "None" THEN [ret |-> "TargetRequired", result |-> Metric_Err]
    ELSE IF ~metric.target.converts THEN [ret |-> "ConversionError", result |-> Metric_Err]
    ELSE LET result == Metric_with_target(metric_type, target)
         IN [ret |-> IF result.ok THEN "Ok" ELSE "MetricError", result |-> result]

SimMetric_try_from(metric) ==
    CASE metric.metric = "ServiceLevel" ->
            IF metric.sla = None
            THEN [ret |-> "SLARequiresWindow", result |-> Metric_Err]
            ELSE IF metric.target.kind = "Float" /\ metric.target.v \in 0..1
            THEN LET result == Metric_with_target([name |-> "ServiceLevel", ticks |-> metric.sla],
                                                  Target_percent(metric.target.v))
                 IN [ret |-> IF result.ok THEN "Ok" ELSE "MetricError", result |-> result]
            ELSE IF metric.target.kind = "Float"
            THEN [ret |-> "SLAOutsideOfTarget", result |-> Metric_Err]
            ELSE IF metric.target.kind # "None"
            THEN [ret |-> "TargetFloatingPoint", result |-> Metric_Err]
            ELSE [ret |-> "TargetRequired", result |-> Metric_Err]
      [] metric.metric \in MeanDurationTypes ->
            try_from_target(metric, [name |-> metric.metric, ticks |-> None],
                            Target_mean_duration(metric.target.v))
      [] metric.metric = "AbandonRate" ->
            try_from_target(metric, [name |-> "AbandonRate", ticks |-> None],
                            Target_percent(metric.target.v))
      [] metric.metric = "AnswerCount" ->
            try_from_target(metric, [name |-> "AnswerCount", ticks |-> None],
                            Target_count(metric.target.v))
      [] metric.metric = "UtilisationTime" ->
            [ret |-> "NotYetImplemented", result |-> Metric_Err]

InitTargets ==
    /\ id_counter = 0
    /\ threads = <<>>
    /\ end = End
    /\ tick = End
    /\ tick_size = 1
    /\ running = FALSE
    /\ clients = <<>>
    /\ \E n \in 0..1 : \E rs \in [1..n -> OutcomeRequests(1)] :
         request_queue = [RequestQueue_default EXCEPT !.inner = rs]
    /\ server_queue = ServerQueue_default
    /\ statistics = <<>>
    /\ enables = 1
    /\ fatal = FALSE
    /\ op = Call("default", "Ok")
    /\ route_in = [requests |-> <<>>, servers |-> <<>>]
    /\ route_out = [called |-> FALSE, routes |-> <<>>]
    /\ aggregator = Aggregator_default
    /\ folded = <<>>

\* Metric::with_target, and Aggregator::push of the metric it returns
with_target ==
    /\ ~fatal
    /\ \E metric_type \in MetricTypes, target \in Targets :
         LET result == Metric_with_target(metric_type, target)
         IN /\ IF result.ok
               THEN /\ Cardinality(DOMAIN aggregator \cup {metric_type.name}) <= MaxTargets
                    /\ aggregator' = Aggregator_push(aggregator, result.metric)
               ELSE UNCHANGED aggregator
            /\ op' = [name |-> "with_target",
                      ret |-> IF result.ok THEN "Ok" ELSE "MetricError",
                      metric_type |-> metric_type, target |-> target]
    /\ UNCHANGED <<id_counter, threads, end, tick, tick_size, running, clients, request_queue,
                   server_queue,
                   statistics, enables, fatal, route_in, route_out, folded>>

\* Config::metrics: a configured metric converted, and pushed when that succeeds
try_from ==
    /\ ~fatal
    /\ \E metric \in ConfigMetrics :
         LET converted == SimMetric_try_from(metric)
         IN /\ IF converted.result.ok
               THEN /\ Cardinality(DOMAIN aggregator \cup {metric.metric}) <= MaxTargets
                    /\ aggregator' = Aggregator_push(aggregator, converted.result.metric)
               ELSE UNCHANGED aggregator
            /\ op' = Call("try_from", converted.ret)
    /\ UNCHANGED <<id_counter, threads, end, tick, tick_size, running, clients, request_queue,
                   server_queue,
                   statistics, enables, fatal, route_in, route_out, folded>>

\* the metrics are built first, and the aggregator is handed requests afterwards
NextTargets ==
    \/ folded = <<>> /\ with_target
    \/ folded = <<>> /\ try_from
    \/ calculate

SpecTargets == InitTargets /\ [][NextTargets]_vars

\* the same, with metrics coming from the configuration file only
NextConfig ==
    \/ folded = <<>> /\ try_from
    \/ calculate

SpecConfig == InitTargets /\ [][NextConfig]_vars

\* One run: clients and servers are added, enable() is called once, and the
\* driver then calls tick() again and again (`while sim.tick() {}`).
NextRun ==
    \/ ~running /\ enables = 0 /\ add_server
    \/ ~running /\ enables = 0 /\ add_client
    \/ enables = 0 /\ enable
    \/ enables = 1 /\ Simulation_tick

RunSpec == Init /\ [][NextRun]_vars

LiveSpec == RunSpec /\ WF_vars(enables = 1 /\ Simulation_tick)

\* --------------------------------------------------- the id counter
\* The pool runs one simulation on each thread (rayon into_par_iter over
\* run_sim).  Every Request::new takes its id from the one static
\* ID_COUNTER with fetch_add, an atomic read-modify-write: one step.  A
\* thread's simulation keeps the requests it built in `inner` and inserts a
\* released request into its `waiting` map under the request's id.
MaxThreads == 2

\* ID_COUNTER.fetch_add(1, SeqCst) that leaves the counter as it was
ID_COUNTER_fetch_add_no_store(counter) == [id |-> counter, counter |-> counter]

\* ID_COUNTER.fetch_add(1, SeqCst): the old value, and the counter after it
ID_COUNTER_fetch_add(counter) == [id |-> counter, counter |-> counter + 1]

\* HashMap::insert: the entry of the key is set, whatever it held
HashMap_insert(map, key, value) ==
    [k \in DOMAIN map \cup {key} |-> IF k = key THEN value ELSE map[k]]

InitIds ==
    /\ id_counter = 0
    /\ threads = [t \in 1..MaxThreads |-> [inner |-> <<>>, released |-> {}, waiting |-> <<>>]]
    /\ end = End
    /\ tick = 0
    /\ tick_size = 1
    /\ running = FALSE
    /\ clients = <<>>
    /\ request_queue = RequestQueue_default
    /\ server_queue = ServerQueue_default
    /\ statistics = <<>>
    /\ enables = 0
    /\ fatal = FALSE
    /\ op = Call("main", "Ok")
    /\ route_in = [requests |-> <<>>, servers |-> <<>>]
    /\ route_out = [called |-> FALSE, routes |-> <<>>]
    /\ aggregator = Aggregator_default
    /\ folded = <<>>

\* generate_requests on thread t: one Request::new and the push of the request
thread_new(t) ==
    /\ threads[t].released = {}
    /\ Len(threads[t].inner) < MaxRequests
    /\ LET fetched == ID_COUNTER_fetch_add(id_counter)
       IN /\ id_counter' = fetched.counter
          /\ threads' = [threads EXCEPT ![t].inner = Append(@, fetched.id)]
    /\ UNCHANGED <<sim_vars, route_in, route_out, aggregator, folded>>

\* tick_release_to_queue on thread t: a request of the thread is released
thread_release(t) ==
    /\ \E i \in DOMAIN threads[t].inner \ threads[t].released :
         threads' = [threads EXCEPT
                       ![t].released = @ \cup {i},
                       ![t].waiting = HashMap_insert(@, threads[t].inner[i], i)]
    /\ UNCHANGED <<id_counter, sim_vars, route_in, route_out, aggregator, folded>>

NextIds ==
    \/ \E t \in 1..MaxThreads : thread_new(t)
    \/ \E t \in 1..MaxThreads : thread_release(t)

SpecIds == InitIds /\ [][NextIds]_vars

\* ------------------------------------------------- the Request alone
\* One Request, built by Request::new and held as the only request of the
\* queue; its operations are called with any tick, in any order.
InitRequest ==
    /\ id_counter = 1
    /\ threads = <<>>
    /\ end = End
    /\ tick = 0
    /\ tick_size = 1
    /\ running = FALSE
    /\ clients \in {<<c>> : c \in Clients}
    /\ \E start \in 0..End :
         request_queue =
             RequestQueue_push(RequestQueue_default,
                               Request_new(1, start, start + clients[1].abandon_time,
                                           clients[1].handle_time, clients[1]))
    /\ server_queue = ServerQueue_default
    /\ statistics = <<>>
    /\ enables = 0
    /\ fatal = FALSE
    /\ op = [name |-> "new", ret |-> "Ok", now |-> 0, value |-> None]
    /\ route_in = [requests |-> <<>>, servers |-> <<>>]
    /\ route_out = [called |-> FALSE, routes |-> <<>>]
    /\ aggregator = Aggregator_default
    /\ folded = <<>>

Request_panics(name, now) ==
    /\ fatal' = TRUE
    /\ op' = [name |-> name, ret |-> "panic", now |-> now, value |-> None]
    /\ UNCHANGED request_queue

call_enqueue ==
    /\ ~fatal
    /\ Len(request_queue.inner[1].log) < MaxLog
    /\ \E now \in 0..End :
         IF Request_enqueue_panics(request_queue.inner[1], now)
         THEN Request_panics("enqueue", now)
         ELSE /\ request_queue' = [request_queue EXCEPT !.inner[1] = Request_enqueue(@, now)]
              /\ op' = [name |-> "enqueue", ret |-> "Ok", now |-> now, value |-> None]
              /\ UNCHANGED fatal
    /\ UNCHANGED <<id_counter, threads, end, tick, tick_size, running, clients, server_queue,
                   statistics, enables, route_in, route_out, aggregator, folded>>

call_tick_wait ==
    /\ ~fatal
    /\ Len(request_queue.inner[1].log) < MaxLog
    /\ \E now \in 0..End :
         IF Request_tick_wait_panics(request_queue.inner[1], now)
         THEN Request_panics("tick_wait", now)
         ELSE LET waited == Request_tick_wait(request_queue.inner[1], now)
              IN /\ request_queue' = [request_queue EXCEPT !.inner[1] = waited.request]
                 /\ op' = [name |-> "tick_wait",
                           ret |-> IF waited.ret THEN "true" ELSE "false",
                           now |-> now, value |-> None]
                 /\ UNCHANGED fatal
    /\ UNCHANGED <<id_counter, threads, end, tick, tick_size, running, clients, server_queue,
                   statistics, enables, route_in, route_out, aggregator, folded>>

call_handle ==
    /\ ~fatal
    /\ Len(request_queue.inner[1].log) < MaxLog
    /\ \E now \in 0..End :
         IF Request_handle_panics(request_queue.inner[1], now)
         THEN Request_panics("handle", now)
         ELSE LET handled == Request_handle(request_queue.inner[1], now)
              IN /\ request_queue' = [request_queue EXCEPT !.inner[1] = handled.request]
                 /\ op' = [name |-> "handle", ret |-> "Ok", now |-> now,
                           value |-> handled.ret]
                 /\ UNCHANGED fatal
    /\ UNCHANGED <<id_counter, threads, end, tick, tick_size, running, clients, server_queue,
                   statistics, enables, route_in, route_out, aggregator, folded>>

NextRequest ==
    \/ call_enqueue
    \/ call_tick_wait
    \/ call_handle

SpecRequest == InitRequest /\ [][NextRequest]_vars

\* ------------------------------------------------------- the scenarios
\* The runs of the end-to-end tests: a simulation built with clients and
\* servers (distinct server ids), enabled once and ticked until tick()
\* returns false.  The run is longer than the handle and abandon times.
ScenarioEnd == 6

ScenarioClients == {[handle_time |-> 4, abandon_time |-> 1],
                    [handle_time |-> 3, abandon_time |-> 0],
                    [handle_time |-> 1, abandon_time |-> 2]}

RECURSIVE ScenarioServers(_)
ScenarioServers(n) ==
    IF n = 0 THEN ServerQueue_default
    ELSE ServerQueue_push(ScenarioServers(n - 1), QueueableServer_new([id |-> n]))

InitScenario ==
    /\ id_counter = 0
    /\ threads = <<>>
    /\ end = ScenarioEnd
    /\ tick = 0
    /\ tick_size \in 0..MaxTickSize
    /\ running = FALSE
    /\ clients \in SeqsUpTo(ScenarioClients, MaxClients)
    /\ request_queue = RequestQueue_default
    /\ \E n \in 0..MaxServers : server_queue = ScenarioServers(n)
    /\ statistics = <<>>
    /\ enables = 0
    /\ fatal = FALSE
    /\ op = Call("add_client", "Ok")
    /\ route_in = [requests |-> <<>>, servers |-> <<>>]
    /\ route_out = [called |-> FALSE, routes |-> <<>>]
    /\ aggregator = Aggregator_default
    /\ folded = <<>>

NextScenario ==
    \/ enables = 0 /\ enable
    \/ enables = 1 /\ Simulation_tick

SpecScenario == InitScenario /\ [][NextScenario]_vars

\* ------------------------------------------------- the waiting line
\* Runs in which requests queue up behind one server: more clients than
\* servers, so that a server released while several requests wait is given
\* to one of them.
MaxWaiters == 3

WaitingClients == {[handle_time |-> 2, abandon_time |-> 3]}

InitWaiting ==
    /\ id_counter = 0
    /\ threads = <<>>
    /\ end = ScenarioEnd
    /\ tick = 0
    /\ tick_size \in 1..MaxTickSize
    /\ running = FALSE
    /\ clients \in [1..MaxWaiters -> WaitingClients]
    /\ request_queue = RequestQueue_default
    /\ server_queue = ScenarioServers(1)
    /\ statistics = <<>>
    /\ enables = 0
    /\ fatal = FALSE
    /\ op = Call("add_client", "Ok")
    /\ route_in = [requests |-> <<>>, servers |-> <<>>]
    /\ route_out = [called |-> FALSE, routes |-> <<>>]
    /\ aggregator = Aggregator_default
    /\ folded = <<>>

SpecWaiting == InitWaiting /\ [][NextScenario]_vars

\* Simulation::statistics on a simulation that is not running: every request
\* of the queue folded into the metrics, here one metric of every type
Simulation_statistics ==
    Aggregator_calculate(Aggregator_with_metrics(AllMetrics), request_queue.inner)

\* ------------------------------------------------------------ claims
\* C1 (as claimed): under any order of add_client, add_server, enable and
\* tick, every change of a request's status is Pending -> Enqueued,
\* Enqueued -> Answered or Enqueued -> Abandoned; an Answered or Abandoned
\* request never changes status again.
C1_StatusStateMachine ==
    \A i \in DOMAIN request_queue.inner :
        LET log == request_queue.inner[i].log
        IN /\ log[1] = "Pending"
           /\ \A k \in 1..(Len(log) - 1) :
                 \/ log[k] = "Pending" /\ log[k + 1] = "Enqueued"
                 \/ log[k] = "Enqueued" /\ log[k + 1] \in {"Answered", "Abandoned"}

\* C2 (as claimed): once enable() has succeeded, no later enable() succeeds:
\* each returns the Enabled error and leaves running, both queues and the
\* requests as they were.
C2_EnableOnlyOnce ==
    [][enables >= 1 =>
          /\ enables' = enables
          /\ op'.name = "enable" =>
                /\ op'.ret = "Enabled"
                /\ UNCHANGED <<running, request_queue, server_queue>>]_vars

\* C3: a call of add_client, add_server or add_metric made while running is
\* true returns the Enabled error and leaves the clients, the server queue and
\* the metrics unchanged; made while running is false it returns Ok and has
\* appended its argument.
C3_AddWhileRunningFails ==
    [][op'.name \in {"add_client", "add_server", "add_metric"} =>
          IF running
          THEN /\ op'.ret = "Enabled"
               /\ UNCHANGED <<clients, server_queue, statistics>>
          ELSE /\ op'.ret = "Ok"
               /\ op'.name = "add_client" =>
                     /\ Len(clients') = Len(clients) + 1
                     /\ SubSeq(clients', 1, Len(clients)) = clients
                     /\ UNCHANGED <<server_queue, statistics>>
               /\ op'.name = "add_server" =>
                     /\ Len(server_queue'.inner) = Len(server_queue.inner) + 1
                     /\ SubSeq(server_queue'.inner, 1, Len(server_queue.inner))
                            = server_queue.inner
                     /\ UNCHANGED <<clients, statistics>>
               /\ op'.name = "add_metric" =>
                     /\ Len(statistics') = Len(statistics) + 1
                     /\ SubSeq(statistics', 1, Len(statistics)) = statistics
                     /\ UNCHANGED <<clients, server_queue>>]_vars

C3_Witness ==
    /\ running
    /\ op = Call("add_server", "Enabled")
    /\ Len(server_queue.inner) = 1
    /\ Len(clients) = 1

\* C4 (as claimed): whenever a tick() call has returned false, running is
\* false and the current tick equals end.
C4_TickFalseAtEnd_Original ==
    op = Call("tick", "false") => ~running /\ tick = End

\* C4 (amended): whenever a tick() call made after enable() has succeeded has
\* returned false, running is false and the current tick equals end.
C4_TickFalseAtEnd ==
    (op = Call("tick", "false") /\ enables >= 1) => ~running /\ tick = End

C4_Witness ==
    /\ op = Call("tick", "false")
    /\ enables = 1
    /\ Len(request_queue.inner) = 2
    /\ \E i \in DOMAIN request_queue.inner : request_queue.inner[i].status = "Answered"

\* C5: after enable(), with tick_size > 0, a driver that keeps calling
\* tick() eventually gets false.
C5_RunsToCompletion ==
    (running /\ tick_size > 0) ~> (op = Call("tick", "false"))

C5_Witness ==
    /\ op = Call("tick", "false")
    /\ tick_size > 0
    /\ enables = 1
    /\ Len(request_queue.inner) = 2
    /\ Len(server_queue.inner) = 1
    /\ \E i \in DOMAIN request_queue.inner : request_queue.inner[i].status = "Abandoned"

\* C6: a tick() call on a running simulation that leaves the waiting set
\* non-empty at its time advance moves the current tick by exactly tick_size,
\* clamped to end.
C6_AdvanceByTickSize ==
    [][(running /\ op'.name = "tick" /\ ~fatal' /\ request_queue'.waiting # {}) =>
          tick' = IF tick + tick_size >= End THEN End ELSE tick + tick_size]_vars

C6_Witness ==
    /\ running
    /\ op = Call("tick", "true")
    /\ request_queue.waiting # {}
    /\ tick_size = 1
    /\ tick = 2

\* C7: a tick() call on a running simulation that leaves the waiting set empty
\* at its time advance moves the current tick to the least of the starts of
\* the pending requests and the release times of the busy servers, or to end
\* when there is neither, clamped to end; with no request at all the call
\* ends the run at end.
C7_JumpToNextEvent ==
    [][(running /\ op'.name = "tick" /\ ~fatal' /\ request_queue'.waiting = {}) =>
          LET events ==
                  {request_queue'.inner[i].start : i \in BagToSet(request_queue'.enqueued)}
                  \cup {server_queue'.inner[i].tick : i \in BagToSet(server_queue'.enqueued)}
              target == IF events = {} THEN End ELSE Min(events)
          IN /\ tick' = IF target >= End THEN End ELSE target
             /\ Len(request_queue.inner) = 0 => (tick' = End /\ ~running')]_vars

C7_Witness ==
    /\ running
    /\ op = Call("tick", "true")
    /\ request_queue.waiting = {}
    /\ tick > 0
    /\ \E i \in BagToSet(request_queue.enqueued) : request_queue.inner[i].start = tick

DistinctServerIds ==
    \A i, j \in DOMAIN server_queue.inner :
        server_queue.inner[i].id = server_queue.inner[j].id => i = j

\* C8: in a run started by a single enable() with distinct server ids no
\* tick() call panics (no routed request id is missing from waiting or not
\* Enqueued, no routed server id is missing from free, no Request assertion
\* fires), and every handled request got end = its handling tick + its
\* handle duration.
C8_NoFatalError ==
    (enables <= 1 /\ DistinctServerIds) =>
        /\ ~fatal
        /\ op.ret # "panic"
        /\ \A i \in DOMAIN request_queue.inner :
              LET r == request_queue.inner[i]
              IN r.status = "Answered" => r.end = r.established + r.handle_ticks

C8_Witness ==
    /\ enables = 1
    /\ DistinctServerIds
    /\ ~fatal
    /\ Len(server_queue.inner) = 2
    /\ Len(request_queue.inner) = 2
    /\ \A i \in DOMAIN request_queue.inner :
          /\ request_queue.inner[i].status = "Answered"
          /\ request_queue.inner[i].established = 1

DistinctIds(snapshots) ==
    \A i, j \in DOMAIN snapshots : snapshots[i].id = snapshots[j].id => i = j

\* C9: for waiting and free inputs with distinct ids, route_requests returns
\* min(|waiting|, |free|) pairs, the i-th being the i-th waiting snapshot with
\* the i-th free snapshot counted from the end; no request id and no server id
\* occurs twice and every id comes from the matching input.
C9_RoutePairs ==
    (route_out.called /\ DistinctIds(route_in.requests) /\ DistinctIds(route_in.servers)) =>
        LET w == route_in.requests
            f == route_in.servers
            r == route_out.routes
            n == IF Len(w) <= Len(f) THEN Len(w) ELSE Len(f)
        IN /\ Len(r) = n
           /\ \A i \in 1..Len(r) : r[i] = <<w[i].id, f[Len(f) - i + 1].id>>
           /\ \A i, j \in 1..Len(r) : i # j => r[i][1] # r[j][1] /\ r[i][2] # r[j][2]
           /\ \A i \in 1..Len(r) :
                 /\ r[i][1] \in {w[k].id : k \in DOMAIN w}
                 /\ r[i][2] \in {f[k].id : k \in DOMAIN f}

C9_Witness ==
    /\ route_out.called
    /\ DistinctIds(route_in.requests)
    /\ DistinctIds(route_in.servers)
    /\ Len(route_in.requests) = 3
    /\ Len(route_in.servers) = 2
    /\ Len(route_out.routes) = 2

\* C10: every Answered request has established >= start and
\* end = established + handle_duration, the handle_time of its client; in the
\* step that answers it, established is the tick being processed and a server
\* is made busy until exactly that end.
C10_AnsweredFields ==
    [][\A i \in DOMAIN request_queue'.inner :
          LET r == request_queue'.inner[i]
          IN r.status = "Answered" =>
                /\ r.established >= r.start
                /\ r.handle_ticks = r.source.handle_time
                /\ r.end = r.established + r.handle_ticks
                /\ (i \in DOMAIN request_queue.inner
                    /\ request_queue.inner[i].status # "Answered") =>
                      /\ r.established = tick
                      /\ \E e \in BagToSet(server_queue'.enqueued) :
                            server_queue'.inner[e].tick = r.end]_vars

C10_Witness ==
    /\ enables = 1
    /\ \E i \in DOMAIN request_queue.inner :
          LET r == request_queue.inner[i]
          IN /\ r.status = "Answered"
             /\ r.start = 1
             /\ r.established = 2
             /\ r.end = 4

\* C11: from enable() until the run completes, every Abandoned request has
\* established unset and end set to a tick t with
\* t >= abandon_deadline >= start, where abandon_deadline is start plus the
\* abandon_time of its client.
C11_AbandonedFields ==
    enables = 1 =>
        \A i \in DOMAIN request_queue.inner :
            LET r == request_queue.inner[i]
                abandon_deadline == r.start + r.source.abandon_time
            IN r.status = "Abandoned" =>
                  /\ r.established = None
                  /\ r.end # None
                  /\ r.end >= abandon_deadline
                  /\ abandon_deadline >= r.start

C11_Witness ==
    /\ enables = 1
    /\ \E i \in DOMAIN request_queue.inner :
          LET r == request_queue.inner[i]
          IN /\ r.status = "Abandoned"
             /\ r.source.abandon_time = 1
             /\ r.start = 1
             /\ r.end = 2

\* the requests whose status is Answered or Abandoned
Terminal == {i \in DOMAIN request_queue.inner :
                request_queue.inner[i].status \in {"Answered", "Abandoned"}}

\* C12 (as claimed): in a run started by a single enable(), after every
\* tick() call returns, |waiting| + |pending| + |terminal| = |all| and no
\* request id is in both waiting and pending.
C12_RequestPartition_Original ==
    (enables = 1 /\ op.name = "tick" /\ ~fatal) =>
        /\ Cardinality(request_queue.waiting) + BagCardinality(request_queue.enqueued)
             + Cardinality(Terminal) = Len(request_queue.inner)
        /\ request_queue.waiting \cap BagToSet(request_queue.enqueued) = {}

\* C12 (amended): in a run started by a single enable(), after every tick()
\* call returns, the waiting entries whose request is Enqueued, the pending
\* requests and the terminal requests add up to all requests, no request id
\* is in both waiting and pending, and a waiting entry that is not Enqueued
\* is a request answered by that call.
C12_RequestPartition ==
    (enables = 1 /\ op.name = "tick" /\ ~fatal) =>
        LET enqueuedWaiting == {i \in request_queue.waiting :
                                   request_queue.inner[i].status = "Enqueued"}
        IN /\ Cardinality(enqueuedWaiting) + BagCardinality(request_queue.enqueued)
                + Cardinality(Terminal) = Len(request_queue.inner)
           /\ request_queue.waiting \cap BagToSet(request_queue.enqueued) = {}
           /\ \A i \in request_queue.waiting \ enqueuedWaiting :
                 /\ request_queue.inner[i].status = "Answered"
                 /\ request_queue.inner[i].established = request_queue.inner[i].end
                                                          - request_queue.inner[i].handle_ticks

C12_Witness ==
    /\ enables = 1
    /\ op.name = "tick"
    /\ ~fatal
    /\ Len(request_queue.inner) = 2
    /\ \E i, j \in DOMAIN request_queue.inner :
          /\ i \in request_queue.waiting
          /\ request_queue.inner[i].status = "Enqueued"
          /\ j \in BagToSet(request_queue.enqueued)

\* C13: in a run started by a single enable() with distinct server ids, after
\* every tick() call returns each server is in exactly one of free and busy:
\* |free| + |busy| = |servers| and no server id is in both.
C13_ServerPartition ==
    (enables = 1 /\ op.name = "tick" /\ ~fatal /\ DistinctServerIds) =>
        LET free == DOMAIN server_queue.waiting
            busy == {server_queue.inner[e].id : e \in BagToSet(server_queue.enqueued)}
        IN /\ Cardinality(free) + BagCardinality(server_queue.enqueued)
                = Len(server_queue.inner)
           /\ free \cap busy = {}
           /\ free \cup busy = {server_queue.inner[e].id : e \in DOMAIN server_queue.inner}

C13_Witness ==
    /\ enables = 1
    /\ op = Call("tick", "true")
    /\ DistinctServerIds
    /\ Cardinality(DOMAIN server_queue.waiting) = 1
    /\ BagCardinality(server_queue.enqueued) = 1
\* the outcome records (id, status, wait_time, handle_time) of the requests
OutcomeRecords(q) ==
    [i \in DOMAIN q.inner |->
        [id |-> q.inner[i].id, status |-> q.inner[i].status,
         wait_time |-> Request_wait_time(q.inner[i]),
         handle_time |-> Request_handle_time(q.inner[i])]]

\* C14 (as claimed): two simulations built from identical clients, servers,
\* end, tick_size and random sources produce identical outcome records
\* (and so identical metric values, which are folded from those records),
\* whatever the iteration order of the waiting and free maps: whenever a
\* tick() call returns, every iteration order the call could have met leaves
\* the outcome records the call left.
C14_Deterministic ==
    [][(running /\ op'.name = "tick" /\ ~fatal') =>
          \A out \in tick_outcomes(request_queue, server_queue, tick) :
              /\ ~out.panic
              /\ OutcomeRecords(out.request_queue) = OutcomeRecords(request_queue')]_vars

RECURSIVE SumOver(_, _)
SumOver(f, S) ==
    IF S = {} THEN 0
    ELSE LET x == CHOOSE x \in S : TRUE
         IN f[x] + SumOver(f, S \ {x})

\* the requests of the slices folded so far
FoldedIds == UNION {{folded[c][k] : k \in DOMAIN folded[c]} : c \in DOMAIN folded}

\* every request was folded at most once: the slices are disjoint
FoldedDisjoint ==
    \A c, d \in DOMAIN folded : c # d =>
        {folded[c][k] : k \in DOMAIN folded[c]} \cap {folded[d][k] : k \in DOMAIN folded[d]} = {}

\* C16 (as claimed): calculate is idempotent: a second call with the same
\* outcome records leaves every metric's accumulator (sum and count, hits and
\* total, count) equal to its value after the first call.
C16_CalculateIdempotent ==
    [][(Len(folded) = 1 /\ Len(folded') = 2 /\ folded'[2] = folded[1]) =>
          \A k \in DOMAIN aggregator : aggregator'[k].value = aggregator[k].value]_vars

\* C17: calculate is additive: folding two disjoint slices A and B one after
\* the other into a fresh aggregator leaves, in every accumulator, the sum
\* (hits) and the count (total) that folding the union of A and B once
\* leaves, whichever of the two is folded first.
C17_CalculateAdditive ==
    (Len(folded) = 2 /\ FoldedDisjoint) =>
        LET union == Ascending(FoldedIds)
            once == Aggregator_calculate(Aggregator_with_metrics(AllMetrics),
                        [k \in DOMAIN union |-> request_queue.inner[union[k]]])
        IN \A k \in DOMAIN aggregator :
              /\ aggregator[k].value.sum = once[k].value.sum
              /\ aggregator[k].value.count = once[k].value.count

C17_Witness ==
    /\ Len(folded) = 2
    /\ folded = <<<<2>>, <<1>>>>
    /\ request_queue.inner[1].status = "Answered"
    /\ request_queue.inner[2].status = "Abandoned"
    /\ aggregator["AverageTimeInQueue"].value.sum = 5
    /\ aggregator["AverageTimeInQueue"].value.count = 2
    /\ aggregator["AbandonRate"].value.sum = 1
    /\ aggregator["AnswerCount"].value.count = 1

\* C18: after calculate(outcomes) on a fresh aggregator, a ServiceLevel(window)
\* metric has total = the number of Answered outcomes and hits = the number of
\* Answered outcomes with wait_time <= window (a wait equal to the window is a
\* hit), so 0 <= hits <= total.
C18_ServiceLevel ==
    Len(folded) = 1 =>
        LET R == request_queue.inner
            answered == {i \in FoldedIds : R[i].status = "Answered"}
            sl == aggregator["ServiceLevel"]
            window == sl.metric_type.ticks
        IN /\ sl.value.count = Cardinality(answered)
           /\ sl.value.sum =
                 Cardinality({i \in answered : R[i].established - R[i].start <= window})
           /\ 0 <= sl.value.sum
           /\ sl.value.sum <= sl.value.count

C18_Witness ==
    /\ Len(folded) = 1
    /\ folded[1] = <<1, 2>>
    /\ request_queue.inner[1].status = "Answered"
    /\ request_queue.inner[1].established - request_queue.inner[1].start
          = aggregator["ServiceLevel"].metric_type.ticks
    /\ request_queue.inner[2].status = "Answered"
    /\ request_queue.inner[2].established - request_queue.inner[2].start
          > aggregator["ServiceLevel"].metric_type.ticks
    /\ aggregator["ServiceLevel"].value.sum = 1
    /\ aggregator["ServiceLevel"].value.count = 2

\* C19: after calculate(outcomes) on a fresh aggregator each metric has folded
\* exactly the outcomes of its status filter: AbandonRate has hits = #Abandoned
\* and total = #outcomes; AnswerCount = #Answered; AverageWorkTime sums
\* handle_time over Answered; AverageSpeedAnswer sums wait_time over Answered;
\* AverageTimeToAbandon sums wait_time over Abandoned; AverageTimeInQueue sums
\* wait_time over every outcome that has one.
C19_StatusFilters ==
    Len(folded) = 1 =>
        LET R == request_queue.inner
            all == FoldedIds
            answered == {i \in all : R[i].status = "Answered"}
            abandoned == {i \in all : R[i].status = "Abandoned"}
            timed == {i \in all : R[i].established # None \/ R[i].end # None}
            wait == [i \in timed |->
                        IF R[i].established # None THEN R[i].established - R[i].start
                        ELSE R[i].end - R[i].start]
            work == [i \in answered |-> R[i].end - R[i].established]
            v(name) == aggregator[name].value
        IN /\ v("AbandonRate").sum = Cardinality(abandoned)
           /\ v("AbandonRate").count = Cardinality(all)
           /\ v("AnswerCount").count = Cardinality(answered)
           /\ v("AverageWorkTime").sum = SumOver(work, answered)
           /\ v("AverageWorkTime").count = Cardinality(answered)
           /\ v("AverageSpeedAnswer").sum = SumOver(wait, answered)
           /\ v("AverageSpeedAnswer").count = Cardinality(answered)
           /\ v("AverageTimeToAbandon").sum = SumOver(wait, abandoned)
           /\ v("AverageTimeToAbandon").count = Cardinality(abandoned)
           /\ v("AverageTimeInQueue").sum = SumOver(wait, timed)
           /\ v("AverageTimeInQueue").count = Cardinality(timed)

C19_Witness ==
    /\ Len(folded) = 1
    /\ folded[1] = <<1, 2>>
    /\ request_queue.inner[1].status = "Abandoned"
    /\ request_queue.inner[2].status = "Answered"
    /\ aggregator["AbandonRate"].value = [kind |-> "Percent", sum |-> 1, count |-> 2]
    /\ aggregator["AverageTimeToAbandon"].value.sum = 3
    /\ aggregator["AverageSpeedAnswer"].value.sum = 2
    /\ aggregator["AverageWorkTime"].value.sum = 2
    /\ aggregator["AverageTimeInQueue"].value.sum = 5

\* C20 (as claimed): on_target() is true exactly when the accumulated value
\* satisfies the metric's comparator against its target: value <= target for
\* the Average* metrics and AbandonRate, value >= target for ServiceLevel,
\* value = target for AnswerCount.  (A mean or a percentage has a value once
\* its count is positive; a/b <= c/d is a*d <= c*b.)
C20_OnTarget ==
    \A k \in DOMAIN aggregator :
        LET m == aggregator[k]
            v == m.value
            t == m.target
        IN CASE k \in {"AverageWorkTime", "AverageSpeedAnswer", "AverageTimeInQueue",
                       "AverageTimeToAbandon", "AbandonRate"} ->
                    v.count > 0 => (Metric_on_target(m) <=> v.sum * t.count <= t.sum * v.count)
             [] k = "ServiceLevel" ->
                    v.count > 0 => (Metric_on_target(m) <=> v.sum * t.count >= t.sum * v.count)
             [] k = "AnswerCount" ->
                    Metric_on_target(m) <=> v.count = t.count

C22_CalculateNeverAborts == ~(op.name = "calculate" /\ op.ret = "panic")

\* the run started by enable() has ended: tick() has returned false
RunEnded == enables = 1 /\ ~running /\ op = Call("tick", "false")

\* C23: with no servers added no request is Answered in any reachable state,
\* and a request whose abandon deadline lies well before end (more than two
\* tick sizes) is Abandoned when the run has ended; if every request is such
\* a request the finished run reports AbandonRate 1 and AnswerCount 0.
C23_NoServers ==
    Len(server_queue.inner) = 0 =>
        LET R == request_queue.inner
            early(i) == R[i].abandon_ticks + 2 * tick_size < end
            stats == Simulation_statistics
        IN /\ \A i \in DOMAIN R : R[i].status # "Answered"
           /\ RunEnded =>
                /\ \A i \in DOMAIN R : early(i) => R[i].status = "Abandoned"
                /\ (R # <<>> /\ \A i \in DOMAIN R : early(i)) =>
                      /\ stats["AbandonRate"].value.count = Len(R)
                      /\ stats["AbandonRate"].value.sum = stats["AbandonRate"].value.count
                      /\ stats["AnswerCount"].value.count = 0

\* one client, no server: the request waited through its abandon time
C23_Witness ==
    /\ RunEnded
    /\ Len(server_queue.inner) = 0
    /\ Len(request_queue.inner) = 1
    /\ tick_size = 1
    /\ request_queue.inner[1].status = "Abandoned"
    /\ request_queue.inner[1].start = 1
    /\ request_queue.inner[1].end = 3
    /\ Simulation_statistics["AbandonRate"].value.sum = 1

\* C24: if there are at least as many servers (with distinct ids) as clients,
\* no request is ever Abandoned: the tick() call that releases a request
\* leaves it Answered, established at the tick of that call, whatever its
\* abandon_time and handle_time; no call leaves a request Enqueued.
C24_EnoughServers ==
    [][(DistinctServerIds /\ Len(server_queue.inner) >= Len(clients)) =>
          LET R == request_queue.inner
              Q == request_queue'.inner
          IN /\ ~fatal'
             /\ \A i \in DOMAIN Q : Q[i].status \in {"Pending", "Answered"}
             /\ \A i \in DOMAIN R :
                   (R[i].status = "Pending" /\ Len(Q[i].log) > 1) =>
                       /\ Q[i].log = <<"Pending", "Enqueued", "Answered">>
                       /\ Q[i].established = tick
                       /\ Q[i].established >= Q[i].start]_vars

\* two clients, two servers: both requests were released by the same call,
\* one of them with abandon_time 0, and both were answered
C24_Witness ==
    /\ RunEnded
    /\ Len(server_queue.inner) = 2
    /\ Len(request_queue.inner) = 2
    /\ \A i \in 1..2 : /\ request_queue.inner[i].status = "Answered"
                       /\ request_queue.inner[i].start = 2
                       /\ request_queue.inner[i].established = 2
    /\ request_queue.inner[1].abandon_ticks = 2
    /\ request_queue.inner[2].handle_ticks = 4

\* C25: with a single server and two requests whose starts are s1 < s2, when
\* the server stays busy with the first until after the second one's abandon
\* deadline (s1 + handle_time > s2 + abandon_time + tick_size, and that
\* deadline plus two tick sizes is before end), the finished run has the
\* first Answered and the second Abandoned with wait_time >= abandon_time,
\* and reports AbandonRate 0.5 (1 of 2) and AnswerCount 1.
C25_SecondAbandons ==
    (RunEnded /\ Len(server_queue.inner) = 1 /\ Len(request_queue.inner) = 2) =>
        \A i, j \in DOMAIN request_queue.inner :
            LET first == request_queue.inner[i]
                second == request_queue.inner[j]
                stats == Simulation_statistics
            IN (/\ first.start < second.start
                /\ first.start + first.handle_ticks > second.abandon_ticks + tick_size
                /\ second.abandon_ticks + 2 * tick_size < end) =>
                   /\ first.status = "Answered"
                   /\ second.status = "Abandoned"
                   /\ Request_wait_time(second) >= second.abandon_ticks - second.start
                   /\ stats["AbandonRate"].value.sum = 1
                   /\ stats["AbandonRate"].value.count = 2
                   /\ stats["AnswerCount"].value.count = 1

\* the second request arrived while the server was busy and waited through
\* its abandon time
C25_Witness ==
    /\ RunEnded
    /\ tick_size = 1
    /\ Len(server_queue.inner) = 1
    /\ Len(request_queue.inner) = 2
    /\ request_queue.inner[1].start = 0
    /\ request_queue.inner[1].handle_ticks = 4
    /\ request_queue.inner[1].status = "Answered"
    /\ request_queue.inner[2].start = 1
    /\ request_queue.inner[2].abandon_ticks = 2
    /\ request_queue.inner[2].status = "Abandoned"
    /\ request_queue.inner[2].end = 2

\* C26 as stated: when tick() has returned false at the end of a run, no
\* request is left Pending or Enqueued.
C26_AllTerminal_Original ==
    RunEnded =>
        \A i \in DOMAIN request_queue.inner :
            request_queue.inner[i].status \in {"Answered", "Abandoned"}

\* C26: when tick() has returned false at the end of a run, no request whose
\* abandon deadline lies more than two tick sizes before end is left Pending
\* or Enqueued: every such request is Answered or Abandoned.
C26_AllTerminal ==
    RunEnded =>
        \A i \in DOMAIN request_queue.inner :
            request_queue.inner[i].abandon_ticks + 2 * tick_size < end =>
                request_queue.inner[i].status \in {"Answered", "Abandoned"}

\* one server, two clients with early deadlines: the run ended with one
\* request Answered and the other Abandoned
C26_Witness ==
    /\ RunEnded
    /\ tick_size = 1
    /\ Len(server_queue.inner) = 1
    /\ Len(request_queue.inner) = 2
    /\ request_queue.inner[1].start = 0
    /\ request_queue.inner[1].status = "Answered"
    /\ request_queue.inner[2].start = 1
    /\ request_queue.inner[2].status = "Abandoned"

\* C27: request ids are unique: any two Requests constructed in the process,
\* by one simulation or by simulations running on different threads, have
\* different ids; so the requests of one simulation have different ids and an
\* insert into its waiting map never replaces the entry of another request.
C27_UniqueIds ==
    /\ \A t, u \in DOMAIN threads :
          \A i \in DOMAIN threads[t].inner, j \in DOMAIN threads[u].inner :
              threads[t].inner[i] = threads[u].inner[j] => (t = u /\ i = j)
    /\ \A t \in DOMAIN threads :
          /\ Cardinality(DOMAIN threads[t].waiting) = Cardinality(threads[t].released)
          /\ \A i \in threads[t].released : threads[t].waiting[threads[t].inner[i]] = i

\* two threads built their requests in turns and released all of them
C27_Witness ==
    /\ DOMAIN threads = 1..2
    /\ threads[1].inner = <<0, 2>>
    /\ threads[2].inner = <<1, 3>>
    /\ threads[1].released = {1, 2}
    /\ threads[2].released = {1, 2}

\* C28: for an Enqueued request and any now >= start, tick_wait(now) with
\* now < abandon deadline returns true and changes nothing; with now >= the
\* deadline (now equal to the deadline included) it sets status = Abandoned
\* and end = now and returns false.
C28_TickWait ==
    [][LET r == request_queue.inner[1]
           q == request_queue'.inner[1]
           now == op'.now
       IN (op'.name = "tick_wait" /\ r.status = "Enqueued" /\ now >= r.start) =>
             IF now < r.abandon_ticks
             THEN op'.ret = "true" /\ q = r /\ ~fatal'
             ELSE /\ op'.ret = "false"
                  /\ ~fatal'
                  /\ q.status = "Abandoned"
                  /\ q.end = now
                  /\ q = [r EXCEPT !.status = "Abandoned", !.end = now,
                                   !.log = Append(r.log, "Abandoned")]]_vars

\* tick_wait was called at exactly the abandon deadline, one tick after a
\* call that left the request waiting
C28_Witness ==
    /\ op.name = "tick_wait"
    /\ op.ret = "false"
    /\ request_queue.inner[1].start = 1
    /\ request_queue.inner[1].abandon_ticks = 2
    /\ op.now = request_queue.inner[1].abandon_ticks
    /\ request_queue.inner[1].status = "Abandoned"
    /\ request_queue.inner[1].end = 2
    /\ request_queue.inner[1].log = <<"Pending", "Enqueued", "Abandoned">>

\* C29: tick_wait on a request that is not Enqueued returns false and changes
\* no field; a request answered by handle() stays in waiting only until the
\* abandon sweep of the next tick() call of the run, which removes it with
\* status, established and end unchanged: an Answered request never becomes
\* Abandoned, also when its abandon deadline passes while it is in waiting.
C29_AnsweredStaysAnswered ==
    [][(running /\ op'.name = "tick" /\ ~fatal') =>
          LET R == request_queue.inner
              Q == request_queue'.inner
          IN /\ \A i \in DOMAIN R :
                   R[i].status # "Enqueued" =>
                       \A now \in 0..end :
                           Request_tick_wait(R[i], now) = [request |-> R[i], ret |-> FALSE]
             /\ \A i \in DOMAIN R :
                   R[i].status = "Answered" =>
                       /\ Q[i] = R[i]
                       /\ i \notin request_queue'.waiting
             /\ \A i \in request_queue'.waiting :
                   Q[i].status # "Enqueued" =>
                       (Q[i].status = "Answered" /\ R[i].status # "Answered")]_vars

\* a request with abandon_time 0 was answered at its start and swept out of
\* waiting by the next call, after its deadline, still Answered
C29_Witness ==
    /\ running
    /\ op = Call("tick", "true")
    /\ tick_size = 1
    /\ Len(request_queue.inner) = 1
    /\ request_queue.inner[1].status = "Answered"
    /\ request_queue.inner[1].abandon_ticks = request_queue.inner[1].start
    /\ request_queue.inner[1].established = request_queue.inner[1].start
    /\ tick > request_queue.inner[1].abandon_ticks + 1
    /\ 1 \notin request_queue.waiting

\* C30: contract violations on a Request are fatal errors, never silent
\* state changes: handle(now) on a request that is not Enqueued, handle(now)
\* with now < start, tick_wait(now) with now < start on an Enqueued request
\* and enqueue(now) with now < start each abort, and enqueue(now) is only
\* accepted on a Pending request.
C30_ContractViolationsAbort ==
    [][LET r == request_queue.inner[1]
           q == request_queue'.inner[1]
           now == op'.now
           aborts == fatal' /\ op'.ret = "panic" /\ q = r
       IN /\ (op'.name = "handle" /\ (r.status # "Enqueued" \/ now < r.start)) => aborts
          /\ (op'.name = "tick_wait" /\ r.status = "Enqueued" /\ now < r.start) => aborts
          /\ (op'.name = "enqueue" /\ now < r.start) => aborts
          /\ (op'.name = "enqueue" /\ r.status # "Pending") => aborts]_vars

\* C31: the derived views of a request: wait_time is established - start
\* when Answered, end - start when Abandoned and none while Pending or
\* Enqueued; handle_time is end - established (the handle duration) when
\* Answered and none in every other status.
C31_DerivedViews ==
    \A i \in DOMAIN request_queue.inner :
        LET r == request_queue.inner[i]
        IN /\ Request_wait_time(r) =
                 CASE r.status = "Answered" -> r.established - r.start
                   [] r.status = "Abandoned" -> r.end - r.start
                   [] OTHER -> None
           /\ Request_handle_time(r) =
                 IF r.status = "Answered" THEN r.end - r.established ELSE None
           /\ r.status = "Answered" => Request_handle_time(r) = r.handle_ticks

\* C32 as stated: event jumps never skip an arrival.  A tick() call of a run
\* releases a request (Pending -> Enqueued) only at a tick t with
\* start <= t < start + tick_size; after the call no Pending request has
\* start <= t; and when the run has ended every request with
\* start + tick_size <= end has been released.
C32_NoSkippedArrival_Original ==
    [][(running /\ op'.name = "tick" /\ ~fatal') =>
          LET R == request_queue.inner
              Q == request_queue'.inner
          IN /\ \A i \in DOMAIN R :
                   (R[i].status = "Pending" /\ Len(Q[i].log) > 1) =>
                       (R[i].start <= tick /\ tick < R[i].start + tick_size)
             /\ \A i \in DOMAIN Q : Q[i].status = "Pending" => Q[i].start > tick
             /\ ~running' =>
                   \A i \in DOMAIN Q :
                       Q[i].start + tick_size <= end => Len(Q[i].log) > 1]_vars

\* C32: event jumps never skip an arrival.  A tick() call of a run releases
\* a request only at a tick t >= start, after the call no Pending request
\* has start <= t, and for tick_size > 0 the release is at a tick
\* t < start + tick_size and every request with start + tick_size <= end
\* has been released when the run has ended.
C32_NoSkippedArrival ==
    [][(running /\ op'.name = "tick" /\ ~fatal') =>
          LET R == request_queue.inner
              Q == request_queue'.inner
          IN /\ \A i \in DOMAIN R :
                   (R[i].status = "Pending" /\ Len(Q[i].log) > 1) =>
                       /\ R[i].start <= tick
                       /\ tick_size > 0 => tick < R[i].start + tick_size
             /\ \A i \in DOMAIN Q : Q[i].status = "Pending" => Q[i].start > tick
             /\ (tick_size > 0 /\ ~running') =>
                   \A i \in DOMAIN Q :
                       Q[i].start + tick_size <= end => Len(Q[i].log) > 1]_vars

\* no server, tick_size 2: the first request waited from tick 0, so time moved
\* in steps of 2 over the start of the second, which was released at tick 2
C32_Witness ==
    /\ op = Call("tick", "true")
    /\ tick_size = 2
    /\ tick = 4
    /\ Len(server_queue.inner) = 0
    /\ Len(request_queue.inner) = 2
    /\ request_queue.inner[1].start = 0
    /\ request_queue.inner[1].status = "Abandoned"
    /\ request_queue.inner[1].end = 2
    /\ request_queue.inner[2].start = 1
    /\ request_queue.inner[2].abandon_ticks = 3
    /\ request_queue.inner[2].status = "Enqueued"

\* C33: waiting requests are passed to the router in order of their start:
\* when a tick() call of a run (distinct server ids) gives a server to one
\* request and leaves another one waiting, the request that got the server
\* does not have the later start.
C33_EarliestStartFirst ==
    [][(running /\ op'.name = "tick" /\ ~fatal' /\ DistinctServerIds) =>
          LET R == request_queue.inner
              Q == request_queue'.inner
          IN \A i, j \in DOMAIN Q :
                (/\ Q[i].status = "Enqueued"
                 /\ R[j].status # "Answered"
                 /\ Q[j].status = "Answered") => Q[j].start <= Q[i].start]_vars

\* C34 as stated: no request is handled (given a server, status Answered) at
\* a tick t with t >= its abandon deadline.
C34_NoLateAssignment_Original ==
    \A i \in DOMAIN request_queue.inner :
        request_queue.inner[i].status = "Answered" =>
            request_queue.inner[i].established < request_queue.inner[i].abandon_ticks

\* C34: a request that is already waiting when a tick() call of a run begins
\* and is over its waiting limit cannot be assigned: the call gives a server
\* to a request that was Enqueued before it only at a tick t below the
\* request's abandon deadline.  (A request released by the call itself can be
\* given a server at t >= its deadline.)
C34_NoLateAssignment ==
    [][(running /\ op'.name = "tick" /\ ~fatal') =>
          LET R == request_queue.inner
              Q == request_queue'.inner
          IN \A i \in DOMAIN R :
                (R[i].status = "Enqueued" /\ Q[i].status = "Answered") =>
                    /\ Q[i].established = tick
                    /\ tick < R[i].abandon_ticks]_vars

\* the second request waited one tick for the only server and was answered
\* at tick 1, before its deadline 2
C34_Witness ==
    /\ op = Call("tick", "true")
    /\ tick_size = 1
    /\ Len(server_queue.inner) = 1
    /\ Len(request_queue.inner) = 2
    /\ request_queue.inner[1].start = 0
    /\ request_queue.inner[1].handle_ticks = 1
    /\ request_queue.inner[1].established = 0
    /\ request_queue.inner[2].start = 0
    /\ request_queue.inner[2].abandon_ticks = 2
    /\ request_queue.inner[2].status = "Answered"
    /\ request_queue.inner[2].established = 1

\* C35: a tick() call of a run that leaves no request waiting for a server
\* (no request with status Enqueued) at its time advance moves the current
\* tick by event jump, to the least of the starts of the pending requests and
\* the release times of the busy servers, or to end when there is neither
\* (clamped to end), not by tick_size; so does the call that answers the
\* last waiting request.
C35_JumpWhenNoneEnqueued ==
    [][(/\ running
        /\ op'.name = "tick"
        /\ ~fatal'
        /\ \A i \in DOMAIN request_queue'.inner :
              request_queue'.inner[i].status # "Enqueued") =>
          LET events ==
                  {request_queue'.inner[i].start : i \in BagToSet(request_queue'.enqueued)}
                  \cup {server_queue'.inner[i].tick : i \in BagToSet(server_queue'.enqueued)}
              target == IF events = {} THEN end ELSE Min(events)
          IN tick' = IF target >= end THEN end ELSE target]_vars

\* the requests in service at time t: Answered with established <= t < end
InService(inner, t) ==
    {i \in DOMAIN inner : /\ inner[i].status = "Answered"
                          /\ inner[i].established <= t
                          /\ t < inner[i].end}

\* C36: in a run with distinct server ids, after a tick() call at tick t
\* every free server has a release time <= t and every busy server is absent
\* from free, once in the busy heap, with a release time >= t; a server the
\* call assigned was released at or before t (the request it served before
\* ended at or before the new one is established) and is busy until the end
\* of a request established at t; and at any time the number of requests in
\* service is at most the number of servers.
C36_BusyServerNotOffered ==
    [][(running /\ op'.name = "tick" /\ ~fatal' /\ DistinctServerIds) =>
          LET S == server_queue.inner
              T == server_queue'.inner
              free == server_queue'.waiting
              busy == server_queue'.enqueued
              Q == request_queue'.inner
              assigned == {e \in BagToSet(busy) :
                              e \notin BagToSet(server_queue.enqueued) \/ S[e].tick <= tick}
              answered == {i \in DOMAIN Q : /\ request_queue.inner[i].status # "Answered"
                                            /\ Q[i].status = "Answered"}
          IN /\ \A id \in DOMAIN free : T[free[id]].tick <= tick
             /\ \A e \in BagToSet(busy) :
                   /\ T[e].id \notin DOMAIN free
                   /\ busy[e] = 1
                   /\ T[e].tick >= tick
             /\ \A e \in assigned :
                   /\ S[e].tick <= tick
                   /\ \E i \in answered : Q[i].established = tick /\ Q[i].end = T[e].tick
             /\ Cardinality(assigned) = Cardinality(answered)
             /\ \A i \in DOMAIN Q :
                   Q[i].status = "Answered" =>
                       \A t \in Q[i].established..Q[i].end :
                           Cardinality(InService(Q, t)) <= Len(T)]_vars

\* one server, three requests: the server served the first request until
\* tick 2 and was given to another request at tick 2
C36_Witness ==
    /\ op = Call("tick", "true")
    /\ Len(server_queue.inner) = 1
    /\ Len(request_queue.inner) = 3
    /\ request_queue.inner[1].status = "Answered"
    /\ request_queue.inner[1].established = 0
    /\ request_queue.inner[1].end = 2
    /\ request_queue.inner[2].status = "Answered"
    /\ request_queue.inner[2].established = 2
    /\ request_queue.inner[2].end = 4
    /\ request_queue.inner[3].status = "Enqueued"
    /\ server_queue.inner[1].tick = 4
    /\ server_queue.waiting = <<>>

\* C37: time strictly advances and stays in range: for tick_size > 0 every
\* tick() call that returns true leaves the current tick strictly greater
\* than it was before the call, and after every tick() call
\* 0 <= current tick <= end.
C37_TimeAdvances ==
    [][(op'.name = "tick" /\ ~fatal') =>
          /\ (tick_size > 0 /\ op'.ret = "true") => tick' > tick
          /\ 0 <= tick'
          /\ tick' <= end]_vars

\* a call that found a request waiting moved the tick by tick_size, and the
\* call after it jumped to the release of the busy server
C37_Witness ==
    /\ op = Call("tick", "true")
    /\ tick_size = 1
    /\ tick = 2
    /\ Len(request_queue.inner) = 1
    /\ request_queue.inner[1].status = "Answered"
    /\ request_queue.inner[1].established = 0
    /\ request_queue.inner[1].end = 2
    /\ request_queue.waiting = {}

\* C38: the routing step is work-conserving: when a tick() call of a run
\* returns it is never the case that some request has status Enqueued while
\* some server is in free.
C38_WorkConserving ==
    [][(running /\ op'.name = "tick" /\ ~fatal') =>
          ~ /\ \E i \in DOMAIN request_queue'.inner :
                  request_queue'.inner[i].status = "Enqueued"
            /\ DOMAIN server_queue'.waiting # {}]_vars

\* two servers, two requests released by the same call at tick 0: each got
\* a server in that call; at tick 4 one server is free again and no request
\* is Enqueued
C38_Witness ==
    /\ op = Call("tick", "true")
    /\ Len(server_queue.inner) = 2
    /\ Len(request_queue.inner) = 2
    /\ request_queue.inner[1].status = "Answered"
    /\ request_queue.inner[2].status = "Answered"
    /\ request_queue.inner[1].established = 0
    /\ request_queue.inner[2].established = 0
    /\ request_queue.inner[1].end = 1
    /\ request_queue.inner[2].end = 4
    /\ tick = 4
    /\ Cardinality(DOMAIN server_queue.waiting) = 1

\* C39 as stated: every Abandoned request has
\* abandon deadline <= end < abandon deadline + tick_size.
C39_AbandonGranularity_Original ==
    \A i \in DOMAIN request_queue.inner :
        LET r == request_queue.inner[i]
        IN r.status = "Abandoned" =>
              (r.abandon_ticks <= r.end /\ r.end < r.abandon_ticks + tick_size)

\* C39: every Abandoned request has abandon deadline <= end; for
\* tick_size > 0, end < abandon deadline + tick_size when the request's
\* abandon time is at least tick_size (it was then released before its
\* deadline), and end < abandon deadline + 2 * tick_size in every case (a
\* request released at or after its deadline is abandoned by the next call,
\* one tick_size after its release).
C39_AbandonGranularity ==
    \A i \in DOMAIN request_queue.inner :
        LET r == request_queue.inner[i]
        IN r.status = "Abandoned" =>
              /\ r.abandon_ticks <= r.end
              /\ tick_size > 0 =>
                    /\ r.end < r.abandon_ticks + 2 * tick_size
                    /\ r.abandon_ticks - r.start >= tick_size =>
                          r.end < r.abandon_ticks + tick_size

\* no server, tick_size 2: the second request (start 1, deadline 3) was
\* released at tick 2 and abandoned at tick 4, one tick after its deadline
C39_Witness ==
    /\ tick_size = 2
    /\ Len(server_queue.inner) = 0
    /\ Len(request_queue.inner) = 2
    /\ request_queue.inner[1].start = 0
    /\ request_queue.inner[1].status = "Abandoned"
    /\ request_queue.inner[1].end = 2
    /\ request_queue.inner[2].start = 1
    /\ request_queue.inner[2].abandon_ticks = 3
    /\ request_queue.inner[2].status = "Abandoned"
    /\ request_queue.inner[2].end = 4

\* C40: for tick_size > 0, when the run has ended every request whose
\* abandon deadline + 2 * tick_size <= end is Answered or Abandoned; a
\* request left Pending or Enqueued starts or has its deadline within the
\* last two tick sizes before end.
C40_TerminalWithMargin ==
    (tick_size > 0 /\ RunEnded) =>
        \A i \in DOMAIN request_queue.inner :
            LET r == request_queue.inner[i]
            IN /\ r.abandon_ticks + 2 * tick_size <= end =>
                     r.status \in {"Answered", "Abandoned"}
               /\ r.status \in {"Pending", "Enqueued"} =>
                     \/ r.start + 2 * tick_size > end
                     \/ r.abandon_ticks + 2 * tick_size > end

\* no server, tick_size 1, end 6: the request with deadline 4 = end - 2 was
\* abandoned, the request that starts at end was left Pending
C40_Witness ==
    /\ RunEnded
    /\ tick_size = 1
    /\ Len(server_queue.inner) = 0
    /\ Len(request_queue.inner) = 2
    /\ request_queue.inner[1].abandon_ticks = 4
    /\ request_queue.inner[1].status = "Abandoned"
    /\ request_queue.inner[2].start = 6
    /\ request_queue.inner[2].status = "Pending"

====
